---- MODULE Spec2Model ----
(***************************************************************************)
(* Model of the lots-of-knobs firmware: the debounced key matrix           *)
(* (key_matrix.py), the rotary encoder (encoder.py), the MIDI output and   *)
(* note tracker (midi_output.py), the dispatch loop and its                *)
(* KeyboardInterrupt handler (code.py), with the calls they make on the    *)
(* LEDs (led_control.py) and on the display (display.py).                  *)
(*                                                                         *)
(* Time is kept as differences: every use of time.monotonic() in the       *)
(* sources is of the form  current_time - stamp  compared with a constant, *)
(* so each stamp is modelled by the elapsed time since it was set          *)
(* (milliseconds), saturated just above the constant it is compared with.  *)
(* The clock at the first scan()/update() is past every threshold: the     *)
(* stamps start at 0.0 and code.py sleeps for seconds before its loop.     *)
(***************************************************************************)
EXTENDS Integers, Sequences, FiniteSets, TLC

VARIABLES
    \* midi_output.py
    default_channel,     \* MIDIOutput.default_channel
    active_notes,        \* MIDINote.active_notes
    on_channel,          \* {<<active note, channel of its Note-On>>}, kept under SpecChan
    written,             \* messages handed to midi_out.write() by the last step
    sounding,            \* pitch bytes whose latest Note message on the wire is a Note-On
    call,                \* the last call made on the MIDI objects and its arguments
    \* key_matrix.py
    key_states,          \* KeyMatrix.key_states
    time_since_change,   \* current_time - KeyMatrix.last_change_time[k]
    col_value,           \* col.value of switch k while its row is driven low
    level_age,           \* time for which col_value[k] has kept its level
    commit_age,          \* time since key_states[k] last changed
    commit_gap,          \* {time between the last two changes of key_states[k]}
    \* encoder.py
    last_clk_state,      \* RotaryEncoder.last_clk_state
    position,            \* RotaryEncoder.position
    acceleration_enabled,\* RotaryEncoder.acceleration_enabled
    time_since_last,     \* current_time - RotaryEncoder.last_rotation_time
    value,               \* EncoderWithValue.value
    min_value,           \* EncoderWithValue.min_value
    max_value,           \* EncoderWithValue.max_value
    edge_age,            \* {time since the last registered edge}, {} before the first
    detents,             \* number of edges registered so far
    enc,                 \* the last encoder call: pins sampled, state before, result
    \* code.py
    pc,                  \* position of the dispatch loop
    prev_pressed_keys,   \* prev_pressed_keys
    pressed_keys,        \* pressed_keys of the running iteration
    newly_pressed,       \* newly_pressed still to be handled
    newly_released,      \* newly_released still to be handled
    encoder_delta,       \* encoder_delta of the running iteration
    key_cc_values,       \* key_cc_values
    iter_log,            \* messages written since the iteration started
    was_pressed,         \* the keys whose key_states were set when the iteration started
    key_events,          \* number of level changes of the switches so far
    display_age,         \* time since last_display_update was stamped
    screen,              \* what the display shows
    redraw_age,          \* time since the display was last redrawn
    effects,             \* the calls of the running iteration, in order
    shutdown_log,        \* the calls of the KeyboardInterrupt handler, in order
    startup_log,         \* the collaborators constructed so far, in order
    \* led_control.py
    pixels,              \* the colour buffer, by LED index
    strip,               \* the colours latched into the LEDs by the last show()
    brightness           \* LEDController.brightness, in percent

midiVars == <<default_channel, active_notes, on_channel, written, sounding, call>>
scanVars == <<key_states, time_since_change, col_value, level_age, commit_age, commit_gap>>
encVars  == <<last_clk_state, position, acceleration_enabled, time_since_last,
              value, min_value, max_value, edge_age, detents, enc>>
loopVars == <<pc, prev_pressed_keys, pressed_keys, newly_pressed, newly_released,
              encoder_delta, key_cc_values, iter_log, was_pressed, key_events,
              display_age, screen, redraw_age, effects, shutdown_log,
              startup_log, pixels, strip, brightness>>
ledVars  == <<pixels, strip, brightness>>
vars == <<midiVars, scanVars, encVars, loopVars>>

----------------------------------------------------------------------------
(* Bounds of the model *)

\* how far outside the documented range the arguments of the MIDI calls go
MaxOver == 1
\* playable keys 0..MaxPressable-1 are the ones the environment presses
MaxPressable == 2
\* under Spec the inputs change at most this many times: level changes of
\* the switches plus detents of the knob
MaxEvents == 3
\* switches 0..MaxBounced-1 and 17 are the ones that bounce under SpecScan
MaxBounced == 1
\* under SpecEnc the knob is turned by at most this many detents
MaxDetents == 2
\* granularity of the clock between encoder calls outside the dispatch loop (ms)
EncTimeStep == 25
\* granularity of the clock between calls made outside the dispatch loop (ms)
TimeStep == 5

----------------------------------------------------------------------------
(* Python builtins *)

max(a, b) == IF a >= b THEN a ELSE b
min(a, b) == IF a <= b THEN a ELSE b

RECURSIVE BitOr(_, _)
BitOr(a, b) ==
    IF a = 0 THEN b
    ELSE IF b = 0 THEN a
    ELSE (IF a % 2 = 1 \/ b % 2 = 1 THEN 1 ELSE 0) + 2 * BitOr(a \div 2, b \div 2)

\* elapsed time, saturated just above the threshold it is compared with
Elapsed(age, dt, threshold) == min(age + dt, threshold + 1)

\* all orders in which a set can be iterated
RECURSIVE Orders(_)
Orders(S) ==
    IF S = {} THEN {<<>>}
    ELSE UNION {{<<x>> \o p : p \in Orders(S \ {x})} : x \in S}

\* ascending list of a set of integers (list comprehension over range())
RECURSIVE Ascending(_)
Ascending(S) ==
    IF S = {} THEN <<>>
    ELSE LET m == CHOOSE x \in S : \A y \in S : x <= y
         IN <<m>> \o Ascending(S \ {m})

----------------------------------------------------------------------------
(* midi_output.py : MIDIOutput *)

NOTE_OFF == 128
NOTE_ON == 144
CONTROL_CHANGE == 176
PROGRAM_CHANGE == 192

\* a channel argument is {} for None and {c} for the integer c
NoChannel == {}
ChannelOf(channel) == CHOOSE c \in channel : TRUE

\* a channel check that forgets the upper limit
_validate_channel_no_upper(channel) == max(1, channel)

_validate_channel(channel) == max(1, min(16, channel))

\* a value check that forgets the lower limit
_validate_value_no_lower(v, min_val, max_val) == min(max_val, v)

_validate_value(v, min_val, max_val) == max(min_val, min(max_val, v))

_get_channel(channel) ==
    IF channel = NoChannel THEN default_channel
    ELSE _validate_channel(ChannelOf(channel))

note_on(note, velocity, channel) ==
    LET ch == _get_channel(channel)
        n == _validate_value(note, 0, 127)
        v == _validate_value(velocity, 0, 127)
        status == BitOr(NOTE_ON, ch - 1)
    IN <<status, n, v>>

note_off(note, velocity, channel) ==
    LET ch == _get_channel(channel)
        n == _validate_value(note, 0, 127)
        v == _validate_value(velocity, 0, 127)
        status == BitOr(NOTE_OFF, ch - 1)
    IN <<status, n, v>>

control_change(cc_number, val, channel) ==
    LET ch == _get_channel(channel)
        c == _validate_value(cc_number, 0, 127)
        v == _validate_value(val, 0, 127)
        status == BitOr(CONTROL_CHANGE, ch - 1)
    IN <<status, c, v>>

program_change(program, channel) ==
    LET ch == _get_channel(channel)
        p == _validate_value(program, 0, 127)
        status == BitOr(PROGRAM_CHANGE, ch - 1)
    IN <<status, p>>

all_notes_off(channel) == control_change(123, 0, channel)

\* the wire as a listener hears it: which pitches are left sounding
IsNoteOn(m) == Len(m) = 3 /\ m[1] \div 16 = NOTE_ON \div 16
IsNoteOff(m) == Len(m) = 3 /\ m[1] \div 16 = NOTE_OFF \div 16

RECURSIVE Heard(_, _)
Heard(snd, msgs) ==
    IF msgs = <<>> THEN snd
    ELSE LET m == Head(msgs)
         IN Heard(IF IsNoteOn(m) THEN snd \cup {m[2]}
                  ELSE IF IsNoteOff(m) THEN snd \ {m[2]}
                  ELSE snd,
                  Tail(msgs))

\* _send_message: the bytes go out on the port
Send(msgs) ==
    /\ written' = msgs
    /\ sounding' = Heard(sounding, msgs)

Called(op, d1, d2, channel) == [op |-> op, d1 |-> d1, d2 |-> d2, ch |-> channel]

----------------------------------------------------------------------------
(* midi_output.py : MIDINote *)

\* a play() that sends without looking at active_notes
play_unchecked(note, velocity, channel) ==
    /\ Send(<<note_on(note, velocity, channel)>>)
    /\ active_notes' = active_notes \cup {note}

play(note, velocity, channel) ==
    IF note \notin active_notes
    THEN /\ Send(<<note_on(note, velocity, channel)>>)
         /\ active_notes' = active_notes \cup {note}
    ELSE /\ Send(<<>>)
         /\ active_notes' = active_notes

\* a stop() that sends without looking at active_notes
stop_unchecked(note, channel) ==
    /\ Send(<<note_off(note, 0, channel)>>)
    /\ active_notes' = active_notes \ {note}

stop(note, channel) ==
    IF note \in active_notes
    THEN /\ Send(<<note_off(note, 0, channel)>>)
         /\ active_notes' = active_notes \ {note}
    ELSE /\ Send(<<>>)
         /\ active_notes' = active_notes

\* a stop_all() that forgets to clear active_notes
stop_all_no_clear(channel) ==
    /\ \E order \in Orders(active_notes) :
          Send([i \in 1..Len(order) |-> note_off(order[i], 0, channel)])
    /\ active_notes' = active_notes

\* a stop_all() that clears active_notes without sending
stop_all_silent(channel) ==
    /\ Send(<<>>)
    /\ active_notes' = {}

stop_all(channel) ==
    /\ \E order \in Orders(active_notes) :
          Send([i \in 1..Len(order) |-> note_off(order[i], 0, channel)])
    /\ active_notes' = {}

----------------------------------------------------------------------------
(* key_matrix.py : KeyMatrix *)

DEBOUNCE_TIME == 20
NUM_KEYS == 18

\* KEY_MAP[row][col] = {key_num}, {} for an unconnected cell
KEY_MAP ==
    << << {0},  {1},  {2},  {3},  {17} >>,
       << {4},  {5},  {6},  {7},  {}   >>,
       << {8},  {9},  {10}, {11}, {}   >>,
       << {12}, {13}, {14}, {15}, {16} >> >>

Keys == 0..(NUM_KEYS - 1)

\* the key numbers the two nested loops of scan() visit
Scanned == UNION {KEY_MAP[r][c] : r \in 1..Len(KEY_MAP), c \in 1..5}

\* the switches the environment operates under Spec: playable ones and a reserved one
Pressable == (0..(MaxPressable - 1)) \cup {16}

\* a debounce that commits presses only
CommitsPressesOnly(is_pressed, state, since) ==
    is_pressed /\ ~state /\ since > DEBOUNCE_TIME

\* a debounce that takes every differing reading
CommitsWithoutLockout(is_pressed, state, since) ==
    is_pressed # state

\* the condition of the debounce if-statement
Commits(is_pressed, state, since) ==
    is_pressed # state /\ since > DEBOUNCE_TIME

\* a commit that forgets to stamp last_change_time
StampNeverSet(committed, since) == since

\* the stamp of a key after the if-statement
Stamp(committed, since) == IF committed THEN 0 ELSE since

scan(levels) ==
    LET is_pressed(k) == ~levels[k]
        committed(k) == /\ k \in Scanned
                        /\ Commits(is_pressed(k), key_states[k], time_since_change[k])
    IN /\ key_states' = [k \in Keys |->
                            IF committed(k) THEN is_pressed(k) ELSE key_states[k]]
       /\ time_since_change' = [k \in Keys |->
                            Stamp(committed(k), time_since_change[k])]

get_pressed_keys(states) == {i \in Keys : states[i]}

\* observers of the committed changes
ObserveCommits ==
    /\ commit_age' = [k \in Keys |->
                        IF key_states'[k] # key_states[k] THEN 0 ELSE commit_age[k]]
    /\ commit_gap' = [k \in Keys |->
                        IF key_states'[k] # key_states[k]
                        THEN {commit_age[k]} ELSE commit_gap[k]]

\* time passes for the key matrix
ScanClock(dt) ==
    time_since_change' = [k \in Keys |->
                             Elapsed(time_since_change[k], dt, DEBOUNCE_TIME)]

\* time passes for the observers (they are kept under SpecScan only)
ObserverClock(dt) ==
    /\ level_age' = [k \in Keys |-> Elapsed(level_age[k], dt, DEBOUNCE_TIME)]
    /\ commit_age' = [k \in Keys |-> Elapsed(commit_age[k], dt, DEBOUNCE_TIME)]

InitScan ==
    /\ key_states = [k \in Keys |-> FALSE]
    /\ time_since_change = [k \in Keys |-> DEBOUNCE_TIME + 1]
    /\ col_value = [k \in Keys |-> TRUE]
    /\ level_age = [k \in Keys |-> DEBOUNCE_TIME + 1]
    /\ commit_age = [k \in Keys |-> DEBOUNCE_TIME + 1]
    /\ commit_gap = [k \in Keys |-> {}]

----------------------------------------------------------------------------
(* encoder.py : RotaryEncoder *)

ACCELERATION_THRESHOLD == 50
ACCELERATION_MULTIPLIER == 2

\* CLK went high -> low since the previous call
FallingEdge(last_clk, current_clk) == last_clk /\ ~current_clk

\* the step registered on a falling edge, from the level of DT
Direction(dt_value) == IF dt_value THEN 1 ELSE 0 - 1

\* an acceleration branch that ignores acceleration_enabled
AcceleratedAlways(enabled, time_since) ==
    time_since < ACCELERATION_THRESHOLD

\* the acceleration branch
Accelerated(enabled, time_since) ==
    enabled /\ time_since < ACCELERATION_THRESHOLD

\* the delta update() returns for the sampled pins
RawDelta(current_clk, dt_value) ==
    IF FallingEdge(last_clk_state, current_clk)
    THEN IF Accelerated(acceleration_enabled, time_since_last)
         THEN Direction(dt_value) * ACCELERATION_MULTIPLIER
         ELSE Direction(dt_value)
    ELSE 0

\* a position that accumulates the accelerated delta
NextPositionAccelerated(current_clk, dt_value) ==
    position + RawDelta(current_clk, dt_value)

\* position after update() for the sampled pins
NextPosition(current_clk, dt_value) ==
    IF FallingEdge(last_clk_state, current_clk)
    THEN position + Direction(dt_value)
    ELSE position

RotaryEncoder_update(current_clk, dt_value) ==
    /\ position' = NextPosition(current_clk, dt_value)
    /\ time_since_last' = IF FallingEdge(last_clk_state, current_clk)
                          THEN 0 ELSE time_since_last
    /\ last_clk_state' = current_clk
    /\ edge_age' = IF position' # position THEN {0} ELSE edge_age
    /\ detents' = IF position' # position THEN detents + 1 ELSE detents

enable_acceleration(enabled) ==
    /\ acceleration_enabled' = enabled
    /\ UNCHANGED <<last_clk_state, position, time_since_last, edge_age, detents>>

(* encoder.py : EncoderWithValue *)

\* an addition that is clamped at the lower end only
ClampedAddNoUpper(v, delta, lo, hi) == max(lo, v + delta)

\* the clamped addition of update()
ClampedAdd(v, delta, lo, hi) == max(lo, min(hi, v + delta))

\* value after update() when the decoder returned delta
NextValue(delta) ==
    IF delta # 0 THEN ClampedAdd(value, delta, min_value, max_value) ELSE value

\* EncoderWithValue.update(): the state change; it returns NextValue(raw) - value
EncoderWithValue_update(current_clk, dt_value) ==
    /\ RotaryEncoder_update(current_clk, dt_value)
    /\ value' = NextValue(RawDelta(current_clk, dt_value))
    /\ UNCHANGED <<acceleration_enabled, min_value, max_value>>

\* an update() that returns the delta of the decoder
ActualDeltaRaw(current_clk, dt_value) ==
    RawDelta(current_clk, dt_value)

\* what EncoderWithValue.update() returns: self.value - old_value, or 0
ActualDelta(current_clk, dt_value) ==
    NextValue(RawDelta(current_clk, dt_value)) - value

\* time passes for the encoder
EncClock(dt) ==
    /\ time_since_last' = Elapsed(time_since_last, dt, ACCELERATION_THRESHOLD)
    /\ edge_age' = {Elapsed(a, dt, ACCELERATION_THRESHOLD) : a \in edge_age}

EncCall(op, clk, dt_value) ==
    [op |-> op, clk |-> clk, dt |-> dt_value, last |-> last_clk_state,
     accel |-> acceleration_enabled, since |-> edge_age, pos |-> position,
     raw |-> RawDelta(clk, dt_value), delta |-> ActualDelta(clk, dt_value),
     old |-> value, first |-> enc.first,
     sum |-> enc.sum + ActualDelta(clk, dt_value)]

\* RotaryEncoder.__init__ / EncoderWithValue.__init__
InitEncoder(clk, initial_value, lo, hi, accel) ==
    /\ position = 0
    /\ last_clk_state = clk
    /\ acceleration_enabled = accel
    /\ time_since_last = ACCELERATION_THRESHOLD + 1
    /\ value = initial_value
    /\ min_value = lo
    /\ max_value = hi
    /\ edge_age = {}
    /\ detents = 0
    /\ enc = [op |-> "init", clk |-> clk, dt |-> TRUE, last |-> clk,
              accel |-> accel, since |-> {}, pos |-> 0, raw |-> 0, delta |-> 0,
              old |-> initial_value, first |-> initial_value, sum |-> 0]

----------------------------------------------------------------------------
(* display.py : what the display shows after each of its calls *)

\* Display.show_layer(current_layer, layer_name)
LayerView == [view |-> "layer", key |-> 0 - 1, val |-> 0 - 1, cc |-> 0 - 1, ch |-> 0 - 1]

\* Display.show_full_status(..., KEY_PARAM_NAMES[key], value, cc_num, channel)
FullStatus(key, val, cc_num, channel) ==
    [view |-> "full", key |-> key, val |-> val, cc |-> cc_num, ch |-> channel]

\* Display.show_message(message)
MessageView == [view |-> "message", key |-> 0 - 1, val |-> 0 - 1, cc |-> 0 - 1, ch |-> 0 - 1]

\* Display.clear()
BlankView == [view |-> "blank", key |-> 0 - 1, val |-> 0 - 1, cc |-> 0 - 1, ch |-> 0 - 1]

\* code.py l.136; last_display_update starts at 0 and time.monotonic() is
\* seconds past it when the loop is entered
DISPLAY_UPDATE_INTERVAL == 100

\* time passes for the display
DisplayClock(dt) ==
    /\ display_age' = Elapsed(display_age, dt, DISPLAY_UPDATE_INTERVAL)
    /\ redraw_age' = Elapsed(redraw_age, dt, DISPLAY_UPDATE_INTERVAL)

----------------------------------------------------------------------------
(* led_control.py : the pixel buffer *)

NUM_LEDS == 16

\* LEDController.KEY_TO_LED
KEY_TO_LED ==
    [k \in 0..15 |-> <<3, 2, 1, 0, 4, 5, 6, 7, 11, 10, 9, 8, 12, 13, 14, 15>>[k + 1]]

\* (0, 0, 0)
BLACK == <<0, 0, 0>>

\* set_key_value: hue = 240 - 240 * value / 127, so that inside _hsv_to_rgb
\* h * 6.0 is HueSixths(value) / 127
HueSixths(val) == 4 * (127 - val)

\* set_key_value: brightness = 0.3 + 0.7 * value / 127 is Level(value) / 1270
Level(val) == 381 + 7 * val

\* _hsv_to_rgb(h, 1.0, v) for h * 6.0 = h6 / 127 and v = level / 1270:
\* i = int(h * 6.0), f = h * 6.0 - i, p = 0, q = v * (1 - f), t = v * f and
\* every channel is int(x * 255)
_hsv_to_rgb(h6, level) ==
    LET i == (h6 \div 127) % 6
        rem == h6 % 127
        v == (255 * level) \div 1270
        q == (255 * level * (127 - rem)) \div (1270 * 127)
        t == (255 * level * rem) \div (1270 * 127)
    IN CASE i = 0 -> <<v, t, 0>>
         [] i = 1 -> <<q, v, 0>>
         [] i = 2 -> <<0, v, t>>
         [] i = 3 -> <<0, q, v>>
         [] i = 4 -> <<t, 0, v>>
         [] OTHER -> <<v, 0, q>>

\* LEDController.set_led_color
set_led_color(px, led_index, color) ==
    IF 0 <= led_index /\ led_index < NUM_LEDS
    THEN [px EXCEPT ![led_index] = color]
    ELSE px

\* LEDController.set_key_color
set_key_color(px, key_num, color) ==
    IF 0 <= key_num /\ key_num < 16
    THEN set_led_color(px, KEY_TO_LED[key_num], color)
    ELSE px

\* a controller that takes the key number for the LED index
set_key_value_unmapped(px, key_num, val) ==
    IF 0 <= key_num /\ key_num < 16
    THEN set_led_color(px, key_num, _hsv_to_rgb(HueSixths(val), Level(val)))
    ELSE px

\* LEDController.set_key_value
set_key_value(px, key_num, val) ==
    IF 0 <= key_num /\ key_num < 16
    THEN set_key_color(px, key_num, _hsv_to_rgb(HueSixths(val), Level(val)))
    ELSE px

\* pixels.fill((0, 0, 0))
Cleared == [led \in 0..(NUM_LEDS - 1) |-> BLACK]

\* for i in range(16): leds.set_key_value(i, values[i]), from key n on
RECURSIVE SetKeyValues(_, _, _)
SetKeyValues(px, values, n) ==
    IF n > 15 THEN px
    ELSE SetKeyValues(set_key_value(px, n, values[n]), values, n + 1)

----------------------------------------------------------------------------
(* Initial states of the parts *)

\* lines 46-72: the order in which code.py constructs its collaborators
Acquired == <<"display", "matrix", "encoder", "leds", "midi">>

\* code.py l.65: LEDController(brightness=0.3), in percent
INITIAL_BRIGHTNESS == 30

\* MIDIOutput.__init__(default_channel) and MIDINote.__init__
InitMidi(channel) ==
    /\ default_channel = _validate_channel(channel)
    /\ active_notes = {}
    /\ on_channel = {}
    /\ written = <<>>
    /\ sounding = {}
    /\ call = Called("init", 0, 0, NoChannel)

\* the variables of code.py at the start of an iteration in which nothing
\* is held, with the given key_cc_values
InitLoopFrom(values) ==
    /\ pc = "scan"
    /\ prev_pressed_keys = <<>>
    /\ pressed_keys = <<>>
    /\ newly_pressed = <<>>
    /\ newly_released = <<>>
    /\ encoder_delta = 0
    /\ key_cc_values = values
    /\ iter_log = <<>>
    /\ was_pressed = {}
    /\ key_events = 0
    /\ display_age = DISPLAY_UPDATE_INTERVAL + 1
    /\ screen = LayerView
    /\ redraw_age = 0
    /\ effects = <<>>
    /\ shutdown_log = <<>>
    /\ startup_log = Acquired
    /\ pixels = SetKeyValues(Cleared, values, 0)
    /\ strip = pixels
    /\ brightness = INITIAL_BRIGHTNESS

\* the variables of code.py before the first iteration
InitLoop == InitLoopFrom([k \in 0..15 |-> 64])

----------------------------------------------------------------------------
(* Arguments offered to the MIDI calls *)

NoteArgs == {60, 61, 127, 127 + MaxOver}
ByteArgs == {0 - MaxOver, 0, 100, 127, 127 + MaxOver}
ValueArgs == {0 - MaxOver, 100, 127 + MaxOver}
ChannelInts == {1 - MaxOver, 1, 2, 16, 16 + MaxOver}
ChannelArgs == {NoChannel} \cup {{c} : c \in ChannelInts}

----------------------------------------------------------------------------
(* SpecNote: any sequence of MIDINote.play / stop / stop_all calls *)

Play(note, velocity, channel) ==
    /\ play(note, velocity, channel)
    /\ call' = Called("play", note, velocity, channel)
    /\ UNCHANGED <<default_channel, on_channel, scanVars, encVars, loopVars>>

Stop(note, channel) ==
    /\ stop(note, channel)
    /\ call' = Called("stop", note, 0, channel)
    /\ UNCHANGED <<default_channel, on_channel, scanVars, encVars, loopVars>>

StopAll(channel) ==
    /\ stop_all(channel)
    /\ call' = Called("stop_all", 0, 0, channel)
    /\ UNCHANGED <<default_channel, on_channel, scanVars, encVars, loopVars>>

PlayCall == \E n \in NoteArgs, v \in {100}, ch \in ChannelArgs : Play(n, v, ch)
StopCall == \E n \in NoteArgs, ch \in ChannelArgs : Stop(n, ch)
StopAllCall == \E ch \in ChannelArgs : StopAll(ch)

InitNote ==
    /\ \E c \in ChannelInts : InitMidi(c)
    /\ InitScan
    /\ InitEncoder(TRUE, 64, 0, 127, FALSE)
    /\ InitLoop

NextNote == PlayCall \/ StopCall \/ StopAllCall

SpecNote == InitNote /\ [][NextNote]_vars

----------------------------------------------------------------------------
(* SpecChan: any sequence of MIDINote.play / stop / stop_all calls, with a  *)
(* record of the channel on which each active note was switched on          *)

\* the channel 1..16 in the status byte of a message
ChannelSent(m) == (m[1] % 16) + 1

\* the record after a call: a note that play() switched on enters it with
\* the channel of its Note-On, a note that left active_notes leaves it
Recorded(note) ==
    LET entered == IF active_notes' # active_notes /\ note \in active_notes'
                   THEN {<<note, ChannelSent(written'[1])>>}
                   ELSE {}
    IN on_channel' = {p \in on_channel \cup entered : p[1] \in active_notes'}

ChanNotes == {60, 126 + MaxOver, 127 + MaxOver}

PlayOn(note, velocity, channel) ==
    /\ play(note, velocity, channel)
    /\ Recorded(note)
    /\ call' = Called("play", note, velocity, channel)
    /\ UNCHANGED <<default_channel, scanVars, encVars, loopVars>>

StopOn(note, channel) ==
    /\ stop(note, channel)
    /\ Recorded(note)
    /\ call' = Called("stop", note, 0, channel)
    /\ UNCHANGED <<default_channel, scanVars, encVars, loopVars>>

StopAllOn(channel) ==
    /\ stop_all(channel)
    /\ Recorded(0)
    /\ call' = Called("stop_all", 0, 0, channel)
    /\ UNCHANGED <<default_channel, scanVars, encVars, loopVars>>

PlayOnCall == \E n \in ChanNotes, ch \in ChannelArgs : PlayOn(n, 100, ch)
StopOnCall == \E n \in ChanNotes, ch \in ChannelArgs : StopOn(n, ch)
StopAllOnCall == \E ch \in ChannelArgs : StopAllOn(ch)

NextChan == PlayOnCall \/ StopOnCall \/ StopAllOnCall

SpecChan == InitNote /\ [][NextChan]_vars

----------------------------------------------------------------------------
(* SpecOut: any sequence of calls on MIDIOutput *)

Output(op, msg, d1, d2, channel) ==
    /\ Send(<<msg>>)
    /\ call' = Called(op, d1, d2, channel)
    /\ UNCHANGED <<default_channel, active_notes, on_channel, scanVars, encVars, loopVars>>

NoteOnCall ==
    \E n \in ByteArgs, v \in ValueArgs, ch \in ChannelArgs :
        Output("note_on", note_on(n, v, ch), n, v, ch)

NoteOffCall ==
    \E n \in ByteArgs, v \in ValueArgs, ch \in ChannelArgs :
        Output("note_off", note_off(n, v, ch), n, v, ch)

ControlChangeCall ==
    \E c \in ByteArgs, v \in ValueArgs, ch \in ChannelArgs :
        Output("control_change", control_change(c, v, ch), c, v, ch)

ProgramChangeCall ==
    \E p \in ByteArgs, ch \in ChannelArgs :
        Output("program_change", program_change(p, ch), p, 0, ch)

AllNotesOffCall ==
    \E ch \in ChannelArgs :
        Output("all_notes_off", all_notes_off(ch), 123, 0, ch)

SetDefaultChannelCall ==
    \E c \in ChannelInts :
        /\ default_channel' = _validate_channel(c)
        /\ Send(<<>>)
        /\ call' = Called("set_default_channel", c, 0, NoChannel)
        /\ UNCHANGED <<active_notes, on_channel, scanVars, encVars, loopVars>>

NextOut ==
    \/ NoteOnCall
    \/ NoteOffCall
    \/ ControlChangeCall
    \/ ProgramChangeCall
    \/ AllNotesOffCall
    \/ SetDefaultChannelCall

SpecOut == InitNote /\ [][NextOut]_vars

----------------------------------------------------------------------------
(* SpecScan: a switch bounces, time passes, scan() is called *)

Bounce(k) ==
    /\ col_value' = [col_value EXCEPT ![k] = ~@]
    /\ level_age' = [level_age EXCEPT ![k] = 0]
    /\ UNCHANGED <<key_states, time_since_change, commit_age, commit_gap>>
    /\ UNCHANGED <<midiVars, encVars, loopVars>>

Bounced == (0..(MaxBounced - 1)) \cup {17}

BounceAny == \E k \in Bounced : Bounce(k)

ScanCall ==
    /\ scan(col_value)
    /\ ObserveCommits
    /\ UNCHANGED <<col_value, level_age>>
    /\ UNCHANGED <<midiVars, encVars, loopVars>>

ScanTick ==
    /\ ScanClock(TimeStep)
    /\ ObserverClock(TimeStep)
    /\ UNCHANGED <<key_states, col_value, commit_gap>>
    /\ UNCHANGED <<midiVars, encVars, loopVars>>

InitParts ==
    /\ InitMidi(1)
    /\ InitScan
    /\ InitEncoder(TRUE, 64, 0, 127, FALSE)
    /\ InitLoop

NextScan == BounceAny \/ ScanCall \/ ScanTick

SpecScan == InitParts /\ [][NextScan]_vars

----------------------------------------------------------------------------
(* Claims on the debounce (SpecScan) *)

Changed(k) == key_states'[k] # key_states[k]

\* C2 as stated: key_states[k] changes only when the raw level has differed
\* from it for at least DEBOUNCE_TIME, so a flicker shorter than that never
\* becomes a committed edge.
C2_ChangeOnlyAfterStableRaw ==
    [][\A k \in Keys : Changed(k) => level_age[k] >= DEBOUNCE_TIME]_vars

\* C2 as amended: key_states[k] changes only in a scan() that reads a raw
\* level different from it more than DEBOUNCE_TIME after the previous
\* committed change of k, and takes that level; readings inside the lock-out
\* of DEBOUNCE_TIME after a committed change never become an edge.
C2_ChangeOnlyAfterLockout ==
    [][\A k \in Keys :
          /\ Changed(k) => /\ key_states'[k] = ~col_value[k]
                           /\ key_states[k] = col_value[k]
                           /\ commit_age[k] > DEBOUNCE_TIME
          /\ commit_age[k] <= DEBOUNCE_TIME => ~Changed(k)]_vars

\* a press was committed from a level that had held for less than DEBOUNCE_TIME
C2_Witness ==
    \E k \in Keys : /\ key_states[k]
                    /\ commit_age[k] = 0
                    /\ level_age[k] < DEBOUNCE_TIME
                    /\ commit_gap[k] # {}

\* C3: two committed changes of the same switch are always more than
\* DEBOUNCE_TIME apart, however often the raw level toggles in between.
C3_CommitsFurtherApartThanDebounce ==
    \A k \in Keys : \A gap \in commit_gap[k] : gap > DEBOUNCE_TIME

\* a switch has changed twice and its level has toggled again inside the lock-out
C3_Witness ==
    \E k \in Keys : /\ commit_gap[k] # {}
                    /\ commit_age[k] \in 1..DEBOUNCE_TIME
                    /\ level_age[k] < commit_age[k]
                    /\ key_states[k] = col_value[k]

----------------------------------------------------------------------------
(* Claims on the MIDI messages (SpecNote, SpecOut) *)

Clamp(x, lo, hi) == IF x < lo THEN lo ELSE IF x > hi THEN hi ELSE x

\* the channel nibble a call with this channel argument must carry
Nibble(channel) ==
    IF channel = NoChannel THEN default_channel - 1
    ELSE Clamp(ChannelOf(channel), 1, 16) - 1

NoteOnBytes(note, velocity, channel) ==
    <<144 + Nibble(channel), Clamp(note, 0, 127), Clamp(velocity, 0, 127)>>

NoteOffBytes(note, velocity, channel) ==
    <<128 + Nibble(channel), Clamp(note, 0, 127), Clamp(velocity, 0, 127)>>

\* C4: play(n) sends one Note-On exactly when n is not active and is a no-op
\* otherwise; a note leaves the active set only by stop or stop_all, so two
\* play(n) with neither in between send one Note-On.
C4_PlaySendsOnlyWhenInactive ==
    [][/\ call'.op = "play" =>
            IF call'.d1 \in active_notes
            THEN written' = <<>> /\ active_notes' = active_notes
            ELSE /\ written' = <<NoteOnBytes(call'.d1, call'.d2, call'.ch)>>
                 /\ active_notes' = active_notes \cup {call'.d1}
       /\ active_notes \ active_notes' # {} => call'.op \in {"stop", "stop_all"}
      ]_vars

\* a second play of an active note was made and sent nothing
C4_Witness ==
    /\ call.op = "play"
    /\ call.d1 \in active_notes
    /\ written = <<>>

\* no Note-On in msgs is for a pitch that is already sounding
RECURSIVE NoDoubleNoteOn(_, _)
NoDoubleNoteOn(snd, msgs) ==
    IF msgs = <<>> THEN TRUE
    ELSE /\ IsNoteOn(Head(msgs)) => Head(msgs)[2] \notin snd
         /\ NoDoubleNoteOn(Heard(snd, <<Head(msgs)>>), Tail(msgs))

\* C5: the active-note set holds only note numbers 0..127 and the wire never
\* carries two Note-On for one pitch byte without a Note-Off for it in between.
C5_OneNoteOnPerPitch ==
    [][/\ active_notes' \subseteq 0..127
       /\ NoDoubleNoteOn(sounding, written')]_vars

\* C6: stop(n) of an inactive n sends nothing and leaves the set alone; of an
\* active n it sends the one Note-Off of n and removes n and only n.
C6_StopOnlyWhenActive ==
    [][call'.op = "stop" =>
            IF call'.d1 \in active_notes
            THEN /\ written' = <<NoteOffBytes(call'.d1, 0, call'.ch)>>
                 /\ active_notes' = active_notes \ {call'.d1}
            ELSE written' = <<>> /\ active_notes' = active_notes
      ]_vars

\* a stop of an inactive note was made while other notes were active
C6_Witness ==
    /\ call.op = "stop"
    /\ written = <<>>
    /\ call.d1 \notin active_notes
    /\ Cardinality(active_notes) >= 2

\* how many messages of a list equal m
Times(m, msgs) == Cardinality({i \in 1..Len(msgs) : msgs[i] = m})

\* C7: stop_all sends one Note-Off per active note and no other message and
\* empties the set, so a second stop_all sends nothing.
C7_StopAllCoversActiveSet ==
    [][call'.op = "stop_all" =>
            /\ active_notes' = {}
            /\ Len(written') = Cardinality(active_notes)
            /\ \A i \in 1..Len(written') :
                  \E n \in active_notes : written'[i] = NoteOffBytes(n, 0, call'.ch)
            /\ \A n \in active_notes :
                  Times(NoteOffBytes(n, 0, call'.ch), written') =
                  Cardinality({m \in active_notes :
                        NoteOffBytes(m, 0, call'.ch) = NoteOffBytes(n, 0, call'.ch)})
      ]_vars

\* a stop_all has silenced several notes
C7_Witness ==
    /\ call.op = "stop_all"
    /\ Len(written) >= 2
    /\ active_notes = {}

\* the status byte of each kind of call
StatusOf(op) ==
    CASE op = "note_on" -> 144
      [] op = "note_off" -> 128
      [] op = "control_change" -> 176
      [] op = "program_change" -> 192

\* C8: every call writes exactly [T | (clamp(channel,1,16)-1), clamp(d1),
\* clamp(d2)] (two bytes for program_change); None means the default channel,
\* which is in 1..16; every byte is in the status / data range.
C8_WireFormat ==
    /\ default_channel \in 1..16
    /\ call.op \in {"note_on", "note_off", "control_change"} =>
          written = << <<StatusOf(call.op) + Nibble(call.ch),
                         Clamp(call.d1, 0, 127), Clamp(call.d2, 0, 127)>> >>
    /\ call.op = "program_change" =>
          written = << <<StatusOf(call.op) + Nibble(call.ch),
                         Clamp(call.d1, 0, 127)>> >>
    /\ \A i \in 1..Len(written) :
          /\ written[i][1] \in 128..255
          /\ \A j \in 2..Len(written[i]) : written[i][j] \in 0..127

\* a call with a note and a channel above their ranges was written clamped
C8_Witness ==
    /\ call.op = "note_on"
    /\ call.d1 > 127
    /\ call.d2 < 0
    /\ call.ch # NoChannel
    /\ ChannelOf(call.ch) > 16
    /\ written = << <<159, 127, 0>> >>

----------------------------------------------------------------------------
(* SpecEnc: the encoder pins are sampled by update(), time passes,          *)
(* acceleration is switched                                                *)

InitialValues == {1, 64, 126}

EncUpdate ==
    \E clk \in BOOLEAN, dt_value \in BOOLEAN :
        /\ FallingEdge(last_clk_state, clk) => detents < MaxDetents
        /\ EncoderWithValue_update(clk, dt_value)
        /\ enc' = EncCall("update", clk, dt_value)
        /\ UNCHANGED <<midiVars, scanVars, loopVars>>

EnableAcceleration ==
    \E enabled \in BOOLEAN :
        /\ enable_acceleration(enabled)
        /\ enc' = [enc EXCEPT !.op = "enable_acceleration"]
        /\ UNCHANGED <<value, min_value, max_value>>
        /\ UNCHANGED <<midiVars, scanVars, loopVars>>

EncTick ==
    /\ EncClock(EncTimeStep)
    /\ UNCHANGED <<last_clk_state, position, acceleration_enabled,
                   value, min_value, max_value, detents, enc>>
    /\ UNCHANGED <<midiVars, scanVars, loopVars>>

InitEnc ==
    /\ InitMidi(1)
    /\ InitScan
    /\ \E clk \in BOOLEAN, v \in InitialValues, accel \in BOOLEAN :
          InitEncoder(clk, v, 0, 127, accel)
    /\ InitLoop

NextEnc == EncUpdate \/ EnableAcceleration \/ EncTick

SpecEnc == InitEnc /\ [][NextEnc]_vars

----------------------------------------------------------------------------
(* SpecRange: an EncoderWithValue constructed with any arguments, then any  *)
(* sequence of update, set_value and set_range calls                        *)

\* EncoderWithValue.set_value
set_value(v) ==
    /\ value' = max(min_value, min(max_value, v))
    /\ UNCHANGED <<min_value, max_value>>

\* EncoderWithValue.set_range
set_range(lo, hi) ==
    /\ min_value' = lo
    /\ max_value' = hi
    /\ value' = max(lo, min(hi, value))

ValueChoices == {0 - MaxOver, 0, 64, 127, 127 + MaxOver}
RangeChoices == {<<0, 127>>, <<10, 20>>, <<20, 10>>}

SetValue ==
    \E v \in ValueChoices :
        /\ set_value(v)
        /\ enc' = [enc EXCEPT !.op = "set_value", !.old = value]
        /\ UNCHANGED <<last_clk_state, position, acceleration_enabled,
                       time_since_last, edge_age, detents>>
        /\ UNCHANGED <<midiVars, scanVars, loopVars>>

SetRange ==
    \E r \in RangeChoices :
        /\ set_range(r[1], r[2])
        /\ enc' = [enc EXCEPT !.op = "set_range", !.old = value]
        /\ UNCHANGED <<last_clk_state, position, acceleration_enabled,
                       time_since_last, edge_age, detents>>
        /\ UNCHANGED <<midiVars, scanVars, loopVars>>

InitRange ==
    /\ InitMidi(1)
    /\ InitScan
    /\ \E v \in ValueChoices, r \in RangeChoices :
          InitEncoder(TRUE, v, r[1], r[2], FALSE)
    /\ InitLoop

NextRange == EncUpdate \/ SetValue \/ SetRange

SpecRange == InitRange /\ [][NextRange]_vars

----------------------------------------------------------------------------
(* Claims on the quadrature decoder (SpecEnc) *)

\* what the last update() saw
SawFallingEdge == enc.last /\ ~enc.clk
SawDirection == IF enc.dt THEN 1 ELSE 0 - 1
\* acceleration fired: enabled, and the previous registered edge under 50 ms ago
SawAcceleration == enc.accel /\ \E age \in enc.since : age < 50

\* C9: update() returns +1 on a falling edge of phase A with phase B high and
\* -1 with phase B low, doubled only when acceleration is enabled and the
\* previous registered edge was less than 50 ms ago, and 0 in every other case.
C9_QuadratureDelta ==
    enc.op = "update" =>
        enc.raw = IF SawFallingEdge
                  THEN SawDirection * (IF SawAcceleration THEN 2 ELSE 1)
                  ELSE 0

\* an accelerated counter-clockwise edge was decoded
C9_Witness ==
    /\ enc.op = "update"
    /\ SawFallingEdge
    /\ SawAcceleration
    /\ enc.raw = 0 - 2

\* C10 as stated: position changes only on a falling edge of phase A, by +-1,
\* or by +-ACCELERATION_MULTIPLIER when acceleration fires on that edge.
C10_PositionStepAccelerated ==
    enc.op = "update" =>
        position - enc.pos = IF SawFallingEdge
                             THEN SawDirection * (IF SawAcceleration THEN 2 ELSE 1)
                             ELSE 0

\* C10 as amended: position changes only on a falling edge of phase A, and
\* then by exactly +-1, also when acceleration fires on that edge (only the
\* returned delta is multiplied).
C10_PositionStepOne ==
    enc.op = "update" =>
        position - enc.pos = IF SawFallingEdge THEN SawDirection ELSE 0

\* acceleration fired on an edge and the position moved by one
C10_Witness ==
    /\ enc.op = "update"
    /\ SawAcceleration
    /\ enc.raw = 2
    /\ position - enc.pos = 1

\* C11: update() keeps value inside [min_value, max_value] for every delta of
\* the decoder (+-1, +-2): a value in range before the call is in range after
\* it, it stops at max_value (min_value) when the delta would carry it past,
\* and at max_value (min_value) every further positive (negative) delta of the
\* decoder makes update() return 0.
C11_ValueStaysInRange ==
    (enc.op = "update" /\ min_value <= enc.old /\ enc.old <= max_value) =>
        /\ min_value <= value /\ value <= max_value
        /\ enc.old + enc.raw >= max_value => value = max_value
        /\ enc.old + enc.raw <= min_value => value = min_value
        /\ (enc.old = max_value /\ enc.raw > 0) => enc.delta = 0
        /\ (enc.old = min_value /\ enc.raw < 0) => enc.delta = 0

\* an accelerated clockwise edge at max_value: update() returned 0
C11_Witness ==
    /\ enc.op = "update"
    /\ enc.old = max_value
    /\ enc.raw = 2
    /\ enc.delta = 0
    /\ value = max_value

\* the sign of an integer
Sign(x) == IF x > 0 THEN 1 ELSE IF x < 0 THEN 0 - 1 ELSE 0
Abs(x) == IF x < 0 THEN 0 - x ELSE x

----------------------------------------------------------------------------
(* code.py : the dispatch loop *)

KEY_TO_NOTE == [k \in 0..15 |-> 60 + k]
KEY_TO_CC == [k \in 0..15 |-> 1 + k]
midi_channel == 1
NOTE_VELOCITY == 100
FLASH_SLEEP == 30
LOOP_SLEEP == 10
\* (255, 255, 255), the colour of the press flash
WHITE == 255
FLASH_COLOR == <<WHITE, WHITE, WHITE>>

Range(list) == {list[i] : i \in 1..Len(list)}

\* a filter that lets the reserved key through
PlayableAndReserved(all_pressed) == Ascending({k \in all_pressed : k < 17})

\* pressed_keys = [k for k in all_pressed if k < 16]
Playable(all_pressed) == Ascending({k \in all_pressed : k < 16})

\* newly_pressed = [k for k in pressed_keys if k not in prev_pressed_keys]
NewlyPressed(pressed, prev) ==
    SelectSeq(pressed, LAMBDA k : k \notin Range(prev))

\* a loop that never notices a release
NewlyReleasedNever(pressed, prev) == <<>>

\* newly_released = [k for k in prev_pressed_keys if k not in pressed_keys]
NewlyReleased(pressed, prev) ==
    SelectSeq(prev, LAMBDA k : k \notin Range(pressed))

\* a loop that never stores the pressed keys
StoredNothing(pressed) == <<>>

\* prev_pressed_keys = pressed_keys.copy()
Stored(pressed) == pressed

\* one call made by the loop or by the interrupt handler: the block of code.py
\* that made it, the method called, and its arguments
Eff(by, kind, key, val, msg) ==
    [by |-> by, kind |-> kind, key |-> key, val |-> val, msg |-> msg]

\* a call without arguments
Did(by, kind) == Eff(by, kind, 0 - 1, 0 - 1, <<>>)

\* the messages a call put on the wire
MidiEffects(by, msgs) ==
    [i \in 1..Len(msgs) |-> Eff(by, "midi.write", 0 - 1, 0 - 1, msgs[i])]

\* lines 143-146: the two reads of an iteration; raw is what the decoder
\* returned to EncoderWithValue.update()
ReadEffects(raw) ==
    <<Did("read", "matrix.scan"),
      Eff("read", "encoder.update", 0 - 1, raw, <<>>)>>

\* a press that leaves the LED white: no restore after the flash
PressEffectsNoRestore(k, msgs) ==
    MidiEffects("press", msgs)
    \o <<Eff("press", "leds.set_key_color", k, WHITE, <<>>),
         Did("press", "leds.show"),
         Eff("press", "display.show_full_status", k, key_cc_values[k], <<>>)>>

\* lines 159-176: the calls made for one newly pressed key, after play()
\* wrote msgs
PressEffects(k, msgs) ==
    MidiEffects("press", msgs)
    \o <<Eff("press", "leds.set_key_color", k, WHITE, <<>>),
         Did("press", "leds.show"),
         Eff("press", "leds.set_key_value", k, key_cc_values[k], <<>>),
         Did("press", "leds.show"),
         Eff("press", "display.show_full_status", k, key_cc_values[k], <<>>)>>

\* a display refresh for every held key whose value changed
RefreshedForAnyKey(k, first) == TRUE

\* line 215: the display is refreshed for the first held key only
RefreshedFor(k, first) == k = first

\* a for-loop that adds the delta without clamping
RotatedUnclamped(values, keys, delta) ==
    [k \in 0..15 |-> IF k \in Range(keys) THEN values[k] + delta ELSE values[k]]

\* a for-loop over every key instead of the held ones
RotatedAllKeys(values, keys, delta) ==
    [k \in 0..15 |-> max(0, min(127, values[k] + delta))]

\* key_cc_values after the for-loop of the encoder branch
Rotated(values, keys, delta) ==
    [k \in 0..15 |-> IF k \in Range(keys)
                     THEN max(0, min(127, values[k] + delta))
                     ELSE values[k]]

\* the Control-Change messages of the for-loop of the encoder branch
RotationMessages(keys, old, new) ==
    LET changed == SelectSeq(keys, LAMBDA k : new[k] # old[k])
    IN [i \in 1..Len(changed) |->
           control_change(KEY_TO_CC[changed[i]], new[changed[i]], {midi_channel})]

\* lines 199-225: the calls of the for-loop of the encoder branch
RECURSIVE RotationEffects(_, _, _, _)
RotationEffects(keys, first, old, new) ==
    IF keys = <<>> THEN <<>>
    ELSE LET k == Head(keys)
             cc == control_change(KEY_TO_CC[k], new[k], {midi_channel})
         IN (IF new[k] # old[k]
             THEN <<Eff("rotate", "midi.write", 0 - 1, 0 - 1, cc),
                    Eff("rotate", "leds.set_key_value", k, new[k], <<>>)>>
                  \o (IF RefreshedFor(k, first)
                      THEN <<Eff("rotate", "display.show_full_status", k, new[k], <<>>)>>
                      ELSE <<>>)
             ELSE <<>>)
            \o RotationEffects(Tail(keys), first, old, new)

\* lines 211-212: the pixel buffer after the for-loop of the encoder branch
RECURSIVE RotatedPixels(_, _, _, _)
RotatedPixels(px, keys, old, new) ==
    IF keys = <<>> THEN px
    ELSE LET k == Head(keys)
         IN RotatedPixels(IF new[k] # old[k] THEN set_key_value(px, k, new[k]) ELSE px,
                          Tail(keys), old, new)

\* the keys for which the for-loop of the encoder branch refreshes the display
Refreshes(keys, old, new) ==
    SelectSeq(keys, LAMBDA k : new[k] # old[k] /\ RefreshedFor(k, keys[1]))

\* the display after the for-loop of the encoder branch
RotatedScreen(keys, old, new) ==
    LET shown == Refreshes(keys, old, new)
    IN IF shown = <<>> THEN screen
       ELSE LET k == shown[Len(shown)]
            IN FullStatus(k, new[k], KEY_TO_CC[k], midi_channel)

\* the levels the columns can show: open (TRUE) but for the operated switches
Samples == {[k \in Keys |-> k \notin closed] : closed \in SUBSET Pressable}

\* time.sleep() inside the loop
LoopClock(dt) ==
    /\ ScanClock(dt)
    /\ EncClock(dt)

\* lines 140-154: scan, decode, derive the pressed sets; samples are the
\* levels the environment can put on the columns, pins those it can put on
\* CLK and DT
ScanStepOn(samples, pins) ==
    /\ pc = "scan"
    /\ \E levels \in samples, pin \in pins :
          LET clk == pin[1]
              dt_value == pin[2]
              toggled == {k \in Keys : levels[k] # col_value[k]}
              edges == IF FallingEdge(last_clk_state, clk) THEN 1 ELSE 0
          IN /\ key_events + Cardinality(toggled) + detents + edges <= MaxEvents
             /\ col_value' = levels
             /\ key_events' = key_events + Cardinality(toggled)
             /\ scan(levels)
             /\ EncoderWithValue_update(clk, dt_value)
             /\ encoder_delta' = ActualDelta(clk, dt_value)
             /\ effects' = ReadEffects(RawDelta(clk, dt_value))
    /\ pressed_keys' = Playable(get_pressed_keys(key_states'))
    /\ newly_pressed' = NewlyPressed(pressed_keys', prev_pressed_keys)
    /\ newly_released' = NewlyReleased(pressed_keys', prev_pressed_keys)
    /\ was_pressed' = {k \in 0..15 : key_states[k]}
    /\ Send(<<>>)
    /\ iter_log' = <<>>
    /\ pc' = "events"
    /\ UNCHANGED <<prev_pressed_keys, key_cc_values>>
    /\ UNCHANGED <<display_age, screen, redraw_age, shutdown_log>>
    /\ UNCHANGED <<startup_log, ledVars>>
    /\ UNCHANGED <<default_channel, active_notes, on_channel, call>>
    /\ UNCHANGED <<level_age, commit_age, commit_gap, enc>>

\* the levels CLK and DT can show
Pins == BOOLEAN \X BOOLEAN

ScanStep(samples) == ScanStepOn(samples, Pins)

LoopScan == ScanStep(Samples)

\* the for-loop of line 181 starts when the for-loop of line 157 has ended
ReleaseTurnAnytime(pending) == TRUE

ReleaseTurn(pending) == pending = <<>>

\* lines 157-178: one key of newly_pressed
PressKey ==
    /\ pc = "events"
    /\ newly_pressed # <<>>
    /\ LET k == Head(newly_pressed)
       IN /\ play(KEY_TO_NOTE[k], NOTE_VELOCITY, {midi_channel})
          /\ effects' = effects \o PressEffects(k, written')
          /\ screen' = FullStatus(k, key_cc_values[k], KEY_TO_CC[k], midi_channel)
          /\ pixels' = set_key_value(set_key_color(pixels, k, FLASH_COLOR),
                                     k, key_cc_values[k])
    /\ strip' = pixels'
    /\ iter_log' = iter_log \o written'
    /\ LoopClock(FLASH_SLEEP)
    /\ display_age' = Elapsed(display_age, FLASH_SLEEP, DISPLAY_UPDATE_INTERVAL)
    /\ redraw_age' = 0
    /\ newly_pressed' = Tail(newly_pressed)
    /\ UNCHANGED <<pc, prev_pressed_keys, pressed_keys, newly_released,
                   encoder_delta, key_cc_values, was_pressed, key_events,
                   shutdown_log, startup_log, brightness>>
    /\ UNCHANGED <<default_channel, on_channel, call>>
    /\ UNCHANGED <<key_states, col_value, level_age, commit_age, commit_gap>>
    /\ UNCHANGED <<last_clk_state, position, acceleration_enabled,
                   value, min_value, max_value, detents, enc>>

\* lines 181-185: one key of newly_released
ReleaseKey ==
    /\ pc = "events"
    /\ ReleaseTurn(newly_pressed)
    /\ newly_released # <<>>
    /\ stop(KEY_TO_NOTE[Head(newly_released)], {midi_channel})
    /\ iter_log' = iter_log \o written'
    /\ effects' = effects \o MidiEffects("release", written')
    /\ newly_released' = Tail(newly_released)
    /\ UNCHANGED <<pc, prev_pressed_keys, pressed_keys, newly_pressed,
                   encoder_delta, key_cc_values, was_pressed, key_events,
                   display_age, screen, redraw_age, shutdown_log>>
    /\ UNCHANGED <<startup_log, ledVars>>
    /\ UNCHANGED <<default_channel, on_channel, call>>
    /\ UNCHANGED <<scanVars, encVars>>

\* line 189: current_time - last_display_update > DISPLAY_UPDATE_INTERVAL; no
\* sleep lies between line 140 and line 189 when pressed_keys is empty
IntervalElapsed == display_age > DISPLAY_UPDATE_INTERVAL

\* lines 188-191: back to the layer view when nothing is held any more
IdleView ==
    /\ pc = "events"
    /\ newly_pressed = <<>>
    /\ newly_released = <<>>
    /\ IF pressed_keys = <<>> /\ prev_pressed_keys # <<>> /\ IntervalElapsed
       THEN /\ screen' = LayerView
            /\ display_age' = 0
            /\ redraw_age' = 0
            /\ effects' = effects \o <<Did("idle", "display.show_layer")>>
       ELSE UNCHANGED <<screen, display_age, redraw_age, effects>>
    /\ Send(<<>>)
    /\ pc' = "rotate"
    /\ UNCHANGED <<prev_pressed_keys, pressed_keys, newly_pressed, newly_released,
                   encoder_delta, key_cc_values, iter_log, was_pressed, key_events,
                   shutdown_log>>
    /\ UNCHANGED <<startup_log, ledVars>>
    /\ UNCHANGED <<default_channel, active_notes, on_channel, call>>
    /\ UNCHANGED <<scanVars, encVars>>

\* lines 194-229: the encoder moves the values of the held keys
Rotate ==
    /\ pc = "rotate"
    /\ IF encoder_delta # 0 /\ pressed_keys # <<>>
       THEN /\ key_cc_values' = Rotated(key_cc_values, pressed_keys, encoder_delta)
            /\ Send(RotationMessages(pressed_keys, key_cc_values, key_cc_values'))
            /\ effects' = effects
                          \o RotationEffects(pressed_keys, pressed_keys[1],
                                             key_cc_values, key_cc_values')
                          \o <<Did("rotate", "leds.show")>>
            /\ screen' = RotatedScreen(pressed_keys, key_cc_values, key_cc_values')
            /\ pixels' = RotatedPixels(pixels, pressed_keys,
                                       key_cc_values, key_cc_values')
            /\ strip' = pixels'
            /\ redraw_age' = IF Refreshes(pressed_keys, key_cc_values,
                                           key_cc_values') # <<>>
                              THEN 0 ELSE redraw_age
       ELSE /\ key_cc_values' = key_cc_values
            /\ Send(<<>>)
            /\ UNCHANGED <<effects, screen, redraw_age, pixels, strip>>
    /\ iter_log' = iter_log \o written'
    /\ pc' = "store"
    /\ UNCHANGED <<prev_pressed_keys, pressed_keys, newly_pressed, newly_released,
                   encoder_delta, was_pressed, key_events, display_age,
                   shutdown_log, startup_log, brightness>>
    /\ UNCHANGED <<default_channel, active_notes, on_channel, call>>
    /\ UNCHANGED <<scanVars, encVars>>

\* lines 232-235: remember the pressed keys, sleep
StoreAndSleep ==
    /\ pc = "store"
    /\ prev_pressed_keys' = Stored(pressed_keys)
    /\ LoopClock(LOOP_SLEEP)
    /\ DisplayClock(LOOP_SLEEP)
    /\ Send(<<>>)
    /\ pc' = "scan"
    /\ UNCHANGED <<pressed_keys, newly_pressed, newly_released, encoder_delta,
                   key_cc_values, iter_log, was_pressed, key_events,
                   screen, effects, shutdown_log, startup_log, ledVars>>
    /\ UNCHANGED <<default_channel, active_notes, on_channel, call>>
    /\ UNCHANGED <<key_states, col_value, level_age, commit_age, commit_gap>>
    /\ UNCHANGED <<last_clk_state, position, acceleration_enabled,
                   value, min_value, max_value, detents, enc>>

\* the positions of the try block
LoopPositions == {"scan", "events", "rotate", "store"}

\* line 237: KeyboardInterrupt is raised in the try block
Interrupt ==
    /\ pc \in LoopPositions
    /\ pc' = "interrupted"
    /\ UNCHANGED <<prev_pressed_keys, pressed_keys, newly_pressed, newly_released,
                   encoder_delta, key_cc_values, iter_log, was_pressed, key_events,
                   display_age, screen, redraw_age, effects, shutdown_log,
                   startup_log, ledVars>>
    /\ UNCHANGED <<midiVars, scanVars, encVars>>

\* lines 245-248: the shutdown message, then every active note is stopped
ShutdownNotes ==
    /\ pc = "interrupted"
    /\ stop_all({midi_channel})
    /\ screen' = MessageView
    /\ redraw_age' = 0
    /\ shutdown_log' = <<Did("shutdown", "display.show_message")>>
                        \o MidiEffects("shutdown", written')
    /\ pc' = "animation"
    /\ UNCHANGED <<prev_pressed_keys, pressed_keys, newly_pressed, newly_released,
                   encoder_delta, key_cc_values, iter_log, was_pressed, key_events,
                   display_age, effects, startup_log, ledVars>>
    /\ UNCHANGED <<default_channel, on_channel, call>>
    /\ UNCHANGED <<scanVars, encVars>>

ANIMATION_BLINKS == 3
ANIMATION_SLEEP == 150
\* leds.set_brightness(0.05) and leds.set_brightness(0.3), in percent
DIM == 5
BRIGHT == 30

\* lines 251-255: the calls of the LED animation
Animation ==
    [i \in 1..(2 * ANIMATION_BLINKS) |->
        Eff("animation", "leds.set_brightness", 0 - 1,
            IF i % 2 = 1 THEN DIM ELSE BRIGHT, <<>>)]

\* lines 251-255: the LED animation
ShutdownAnimation ==
    /\ pc = "animation"
    /\ shutdown_log' = shutdown_log \o Animation
    /\ brightness' = Animation[Len(Animation)].val
    /\ strip' = pixels
    /\ LoopClock(2 * ANIMATION_BLINKS * ANIMATION_SLEEP)
    /\ DisplayClock(2 * ANIMATION_BLINKS * ANIMATION_SLEEP)
    /\ Send(<<>>)
    /\ pc' = "cleanup"
    /\ UNCHANGED <<prev_pressed_keys, pressed_keys, newly_pressed, newly_released,
                   encoder_delta, key_cc_values, iter_log, was_pressed, key_events,
                   screen, effects, startup_log, pixels>>
    /\ UNCHANGED <<default_channel, active_notes, on_channel, call>>
    /\ UNCHANGED <<key_states, col_value, level_age, commit_age, commit_gap>>
    /\ UNCHANGED <<last_clk_state, position, acceleration_enabled,
                   value, min_value, max_value, detents, enc>>

\* a sweep written with range(2, 17)
DeinitMessagesFromTwo == [i \in 1..15 |-> all_notes_off({i + 1})]

\* a sweep written with range(1, 16)
DeinitMessagesShort == [ch \in 1..15 |-> all_notes_off({ch})]

\* MIDIOutput.deinit: all_notes_off(ch) for ch in range(1, 17)
DeinitMessages == [ch \in 1..16 |-> all_notes_off({ch})]

\* lines 259-264: the calls of the cleanup
CleanupEffects ==
    <<Did("cleanup", "leds.clear"),
      Did("cleanup", "matrix.deinit"),
      Did("cleanup", "encoder.deinit"),
      Did("cleanup", "leds.deinit"),
      Did("cleanup", "midi.deinit")>>
    \o MidiEffects("cleanup", DeinitMessages)
    \o <<Did("cleanup", "display.deinit")>>

\* lines 259-264: the collaborators are released
Cleanup ==
    /\ pc = "cleanup"
    /\ shutdown_log' = shutdown_log \o CleanupEffects
    /\ Send(DeinitMessages)
    /\ screen' = BlankView
    /\ redraw_age' = 0
    /\ pixels' = Cleared
    /\ strip' = Cleared
    /\ pc' = "done"
    /\ UNCHANGED <<prev_pressed_keys, pressed_keys, newly_pressed, newly_released,
                   encoder_delta, key_cc_values, iter_log, was_pressed, key_events,
                   display_age, effects, startup_log, brightness>>
    /\ UNCHANGED <<default_channel, active_notes, on_channel, call>>
    /\ UNCHANGED <<scanVars, encVars>>

\* lines 46-72, 105, 134: the collaborators as code.py constructs them
Init ==
    /\ InitMidi(1)
    /\ InitScan
    /\ \E clk \in BOOLEAN : InitEncoder(clk, 64, 0, 127, FALSE)
    /\ InitLoop

\* one step of the try block
NextLoop ==
    \/ LoopScan
    \/ PressKey
    \/ ReleaseKey
    \/ IdleView
    \/ Rotate
    \/ StoreAndSleep

Next ==
    \/ NextLoop
    \/ Interrupt
    \/ ShutdownNotes
    \/ ShutdownAnimation
    \/ Cleanup

Spec == Init /\ [][Next]_vars

\* the interpreter runs the program on: the loop takes its next step unless
\* it is interrupted, and the handler runs on once entered
FairSpec ==
    /\ Spec
    /\ WF_vars(NextLoop)
    /\ WF_vars(ShutdownNotes)
    /\ WF_vars(ShutdownAnimation)
    /\ WF_vars(Cleanup)

----------------------------------------------------------------------------
(* code.py : the dispatch loop with play() and stop() in two steps each, so
   that KeyboardInterrupt can land between the write and the set update *)

\* the positions inside play() and inside stop(): the message is written,
\* active_notes is not yet updated
InsidePositions == {"press_add", "release_discard"}

\* line 159 up to midi_output.py line 245: play() looks the note up and
\* writes the Note-On
PressNoteOn ==
    /\ pc = "events"
    /\ newly_pressed # <<>>
    /\ LET note == KEY_TO_NOTE[Head(newly_pressed)]
       IN IF note \notin active_notes
          THEN Send(<<note_on(note, NOTE_VELOCITY, {midi_channel})>>)
          ELSE Send(<<>>)
    /\ iter_log' = iter_log \o written'
    /\ effects' = effects \o MidiEffects("press", written')
    /\ pc' = "press_add"
    /\ UNCHANGED <<prev_pressed_keys, pressed_keys, newly_pressed, newly_released,
                   encoder_delta, key_cc_values, was_pressed, key_events,
                   display_age, screen, redraw_age, shutdown_log>>
    /\ UNCHANGED <<startup_log, ledVars>>
    /\ UNCHANGED <<default_channel, active_notes, on_channel, call>>
    /\ UNCHANGED <<scanVars, encVars>>

\* midi_output.py line 246, then lines 162-178: the note enters active_notes
\* (it is there already when play() did not write), flash, restore, display
PressRest ==
    /\ pc = "press_add"
    /\ LET k == Head(newly_pressed)
       IN /\ active_notes' = active_notes \cup {KEY_TO_NOTE[k]}
          /\ effects' = effects \o PressEffects(k, <<>>)
          /\ screen' = FullStatus(k, key_cc_values[k], KEY_TO_CC[k], midi_channel)
          /\ pixels' = set_key_value(set_key_color(pixels, k, FLASH_COLOR),
                                     k, key_cc_values[k])
    /\ strip' = pixels'
    /\ Send(<<>>)
    /\ LoopClock(FLASH_SLEEP)
    /\ display_age' = Elapsed(display_age, FLASH_SLEEP, DISPLAY_UPDATE_INTERVAL)
    /\ redraw_age' = 0
    /\ newly_pressed' = Tail(newly_pressed)
    /\ pc' = "events"
    /\ UNCHANGED <<prev_pressed_keys, pressed_keys, newly_released,
                   encoder_delta, key_cc_values, iter_log, was_pressed, key_events,
                   shutdown_log, startup_log, brightness>>
    /\ UNCHANGED <<default_channel, on_channel, call>>
    /\ UNCHANGED <<key_states, col_value, level_age, commit_age, commit_gap>>
    /\ UNCHANGED <<last_clk_state, position, acceleration_enabled,
                   value, min_value, max_value, detents, enc>>

\* line 183 up to midi_output.py line 257: stop() looks the note up and
\* writes the Note-Off
ReleaseNoteOff ==
    /\ pc = "events"
    /\ ReleaseTurn(newly_pressed)
    /\ newly_released # <<>>
    /\ LET note == KEY_TO_NOTE[Head(newly_released)]
       IN IF note \in active_notes
          THEN Send(<<note_off(note, 0, {midi_channel})>>)
          ELSE Send(<<>>)
    /\ iter_log' = iter_log \o written'
    /\ effects' = effects \o MidiEffects("release", written')
    /\ pc' = "release_discard"
    /\ UNCHANGED <<prev_pressed_keys, pressed_keys, newly_pressed, newly_released,
                   encoder_delta, key_cc_values, was_pressed, key_events,
                   display_age, screen, redraw_age, shutdown_log>>
    /\ UNCHANGED <<startup_log, ledVars>>
    /\ UNCHANGED <<default_channel, active_notes, on_channel, call>>
    /\ UNCHANGED <<scanVars, encVars>>

\* midi_output.py line 258: the note leaves active_notes
ReleaseDiscard ==
    /\ pc = "release_discard"
    /\ active_notes' = active_notes \ {KEY_TO_NOTE[Head(newly_released)]}
    /\ Send(<<>>)
    /\ newly_released' = Tail(newly_released)
    /\ pc' = "events"
    /\ UNCHANGED <<prev_pressed_keys, pressed_keys, newly_pressed,
                   encoder_delta, key_cc_values, iter_log, was_pressed, key_events,
                   display_age, screen, redraw_age, effects, shutdown_log>>
    /\ UNCHANGED <<startup_log, ledVars>>
    /\ UNCHANGED <<default_channel, on_channel, call>>
    /\ UNCHANGED <<scanVars, encVars>>

\* line 237: KeyboardInterrupt is raised inside play() or inside stop()
InterruptInside ==
    /\ pc \in InsidePositions
    /\ pc' = "interrupted"
    /\ UNCHANGED <<prev_pressed_keys, pressed_keys, newly_pressed, newly_released,
                   encoder_delta, key_cc_values, iter_log, was_pressed, key_events,
                   display_age, screen, redraw_age, effects, shutdown_log,
                   startup_log, ledVars>>
    /\ UNCHANGED <<midiVars, scanVars, encVars>>

NextInside ==
    \/ LoopScan
    \/ PressNoteOn
    \/ PressRest
    \/ ReleaseNoteOff
    \/ ReleaseDiscard
    \/ IdleView
    \/ Rotate
    \/ StoreAndSleep
    \/ Interrupt
    \/ InterruptInside
    \/ ShutdownNotes
    \/ ShutdownAnimation
    \/ Cleanup

SpecInside == Init /\ [][NextInside]_vars

----------------------------------------------------------------------------
(* SpecKeys: the dispatch loop with the knob at rest; only the switches are
   operated *)

\* lines 140-154 with CLK as the previous iteration read it
LoopScanAtRest == ScanStepOn(Samples, {<<last_clk_state, TRUE>>})

\* one step of the try block
NextKeysLoop ==
    \/ LoopScanAtRest
    \/ PressKey
    \/ ReleaseKey
    \/ IdleView
    \/ Rotate
    \/ StoreAndSleep

NextKeys ==
    \/ NextKeysLoop
    \/ Interrupt
    \/ ShutdownNotes
    \/ ShutdownAnimation
    \/ Cleanup

SpecKeys == Init /\ [][NextKeys]_vars

\* the interpreter runs the program on: every iteration calls scan() and
\* sleeps, and the handler runs on once entered
FairKeys ==
    /\ SpecKeys
    /\ WF_vars(NextKeysLoop)
    /\ WF_vars(ShutdownNotes)
    /\ WF_vars(ShutdownAnimation)
    /\ WF_vars(Cleanup)

----------------------------------------------------------------------------
(* SpecStart: code.py from its first line. Before its constructor has run,  *)
(* the variables of a collaborator hold what the constructor gives them.    *)

\* Display.show_startup()
StartupView == [view |-> "startup", key |-> 0 - 1, val |-> 0 - 1, cc |-> 0 - 1, ch |-> 0 - 1]

\* the variables of the loop that the start-up leaves alone
loopRest == <<prev_pressed_keys, pressed_keys, newly_pressed, newly_released,
              encoder_delta, iter_log, was_pressed, key_events, display_age,
              effects, shutdown_log>>

\* a constructor returned: the collaborator exists, the next statement runs
Constructed(name, next) ==
    /\ pc = name
    /\ startup_log' = Append(startup_log, name)
    /\ pc' = next

\* a start-up that swallows the exception and goes on without the collaborator
RaisedAndIgnored(name) ==
    /\ pc = name
    /\ pc' = "setup"
    /\ UNCHANGED <<startup_log, screen, redraw_age, key_cc_values, ledVars, loopRest>>
    /\ UNCHANGED <<midiVars, scanVars, encVars>>

\* an exception left a constructor: code.py has no handler around lines
\* 46-72, so the program ends there
Raised(name) ==
    /\ pc = name
    /\ pc' = "failed"
    /\ UNCHANGED <<startup_log, screen, redraw_age, key_cc_values, ledVars, loopRest>>
    /\ UNCHANGED <<midiVars, scanVars, encVars>>

\* lines 46-47: Display(rotation=90) clears the screen (the device is looked
\* for at 0x3C, then at 0x3D), display.show_startup() draws the banner
ConstructDisplay ==
    \/ /\ Constructed("display", "matrix")
       /\ screen' = StartupView
       /\ redraw_age' = 0
       /\ UNCHANGED <<key_cc_values, ledVars, loopRest>>
       /\ UNCHANGED <<midiVars, scanVars, encVars>>
    \/ Raised("display")

\* line 53: KeyMatrix()
ConstructMatrix ==
    \/ /\ Constructed("matrix", "encoder")
       /\ UNCHANGED <<screen, redraw_age, key_cc_values, ledVars, loopRest>>
       /\ UNCHANGED <<midiVars, scanVars, encVars>>
    \/ Raised("matrix")

\* line 59: EncoderWithValue(initial_value=64, acceleration_enabled=False)
ConstructEncoder ==
    \/ /\ Constructed("encoder", "leds")
       /\ UNCHANGED <<screen, redraw_age, key_cc_values, ledVars, loopRest>>
       /\ UNCHANGED <<midiVars, scanVars, encVars>>
    \/ Raised("encoder")

\* line 65: LEDController(brightness=0.3) clears the LEDs
ConstructLeds ==
    \/ /\ Constructed("leds", "midi")
       /\ pixels' = Cleared
       /\ strip' = Cleared
       /\ brightness' = INITIAL_BRIGHTNESS
       /\ UNCHANGED <<screen, redraw_age, key_cc_values, loopRest>>
       /\ UNCHANGED <<midiVars, scanVars, encVars>>
    \/ Raised("leds")

\* lines 71-72: MIDIOutput(default_channel=1), MIDINote(midi); nothing is
\* written
ConstructMidi ==
    \/ /\ Constructed("midi", "setup")
       /\ Send(<<>>)
       /\ UNCHANGED <<default_channel, active_notes, on_channel, call>>
       /\ UNCHANGED <<screen, redraw_age, key_cc_values, ledVars, loopRest>>
       /\ UNCHANGED <<scanVars, encVars>>
    \/ Raised("midi")

\* lines 78-136: the start-up animation, key_cc_values = [64] * 16, the LED
\* of every key set from its value and flushed, the layer view drawn
Setup ==
    /\ pc = "setup"
    /\ key_cc_values' = [k \in 0..15 |-> 64]
    /\ pixels' = SetKeyValues(Cleared, key_cc_values', 0)
    /\ strip' = pixels'
    /\ screen' = LayerView
    /\ redraw_age' = 0
    /\ pc' = "scan"
    /\ UNCHANGED <<startup_log, brightness, loopRest>>
    /\ UNCHANGED <<midiVars, scanVars, encVars>>

\* code.py before line 46
InitStart ==
    /\ InitMidi(1)
    /\ InitScan
    /\ \E clk \in BOOLEAN : InitEncoder(clk, 64, 0, 127, FALSE)
    /\ pc = "display"
    /\ prev_pressed_keys = <<>>
    /\ pressed_keys = <<>>
    /\ newly_pressed = <<>>
    /\ newly_released = <<>>
    /\ encoder_delta = 0
    /\ key_cc_values = [k \in 0..15 |-> 64]
    /\ iter_log = <<>>
    /\ was_pressed = {}
    /\ key_events = 0
    /\ display_age = DISPLAY_UPDATE_INTERVAL + 1
    /\ screen = BlankView
    /\ redraw_age = 0
    /\ effects = <<>>
    /\ shutdown_log = <<>>
    /\ startup_log = <<>>
    /\ pixels = Cleared
    /\ strip = Cleared
    /\ brightness = INITIAL_BRIGHTNESS

Startup ==
    \/ ConstructDisplay
    \/ ConstructMatrix
    \/ ConstructEncoder
    \/ ConstructLeds
    \/ ConstructMidi
    \/ Setup

NextStart == Startup \/ NextLoop

SpecStart == InitStart /\ [][NextStart]_vars

----------------------------------------------------------------------------
(* SpecReserved: the loop, not interrupted, when the environment operates   *)
(* the reserved key 16 and the push switch of the encoder (17) next to one  *)
(* playable key                                                             *)

Operated == {0, 16, 17}

ReservedSamples == {[k \in Keys |-> k \notin closed] : closed \in SUBSET Operated}

LoopScanReserved == ScanStep(ReservedSamples)

NextReserved ==
    \/ LoopScanReserved
    \/ PressKey
    \/ ReleaseKey
    \/ IdleView
    \/ Rotate
    \/ StoreAndSleep

SpecReserved == Init /\ [][NextReserved]_vars

----------------------------------------------------------------------------
(* SpecTurned: the loop, not interrupted, from the start of a later        *)
(* iteration: nothing is held, the knob has been turned before             *)

\* States the loop reaches with nothing held: encoder.value and the value of
\* key 0 as earlier turns of the knob left them (key 0 held for 63 detents up,
\* then released and the knob turned down to its stop), and the time since
\* the idle view was shown on the last release.
Turned ==
    {[value |-> 0, cc0 |-> 127, age |-> DISPLAY_UPDATE_INTERVAL + 1],
     [value |-> 64, cc0 |-> 64, age |-> FLASH_SLEEP + LOOP_SLEEP]}

InitTurned ==
    /\ InitMidi(1)
    /\ InitScan
    /\ \E t \in Turned :
          /\ InitEncoder(TRUE, t.value, 0, 127, FALSE)
          /\ pc = "scan"
          /\ prev_pressed_keys = <<>>
          /\ pressed_keys = <<>>
          /\ newly_pressed = <<>>
          /\ newly_released = <<>>
          /\ encoder_delta = 0
          /\ key_cc_values = [k \in 0..15 |-> IF k = 0 THEN t.cc0 ELSE 64]
          /\ iter_log = <<>>
          /\ was_pressed = {}
          /\ key_events = 0
          /\ display_age = t.age
          /\ screen = LayerView
          /\ redraw_age = t.age
          /\ effects = <<>>
          /\ shutdown_log = <<>>
          /\ startup_log = Acquired
          /\ pixels = SetKeyValues(Cleared, key_cc_values, 0)
          /\ strip = pixels
          /\ brightness = INITIAL_BRIGHTNESS

SpecTurned == InitTurned /\ [][NextLoop]_vars

\* the interpreter runs the loop on
FairTurned == SpecTurned /\ WF_vars(NextLoop)

----------------------------------------------------------------------------
(* Claims on the dispatch loop (Spec) *)

NoteOnOfKey(k) == <<144, 60 + k, 100>>
NoteOffOfKey(k) == <<128, 60 + k, 0>>

\* key k entered / left the pressed set in the iteration that is ending
Entered(k) == key_states[k] /\ k \notin was_pressed
Left(k) == ~key_states[k] /\ k \in was_pressed

\* C1: an iteration sends one Note-On for note 60+k exactly when k enters the
\* pressed set in it and one Note-Off exactly when k leaves it, and no other
\* Note message; so the notes left sounding are those of the held keys and
\* Note-On and Note-Off of a note alternate.
C1_OneNoteMessagePerEdge ==
    pc = "store" =>
        /\ \A k \in 0..15 :
              /\ Times(NoteOnOfKey(k), iter_log) = IF Entered(k) THEN 1 ELSE 0
              /\ Times(NoteOffOfKey(k), iter_log) = IF Left(k) THEN 1 ELSE 0
        /\ \A i \in 1..Len(iter_log) :
              IsNoteOn(iter_log[i]) \/ IsNoteOff(iter_log[i]) =>
                  \E k \in 0..15 :
                      iter_log[i] \in {NoteOnOfKey(k), NoteOffOfKey(k)}
        /\ sounding = {60 + k : k \in {j \in 0..15 : key_states[j]}}

\* an iteration released key 0 while key 1 stayed held
C1_Witness ==
    /\ pc = "store"
    /\ Left(0)
    /\ key_states[1] /\ 1 \in was_pressed
    /\ iter_log = <<NoteOffOfKey(0)>>

----------------------------------------------------------------------------
(* Claims on the encoder branch of the loop (SpecTurned) *)

\* the Control-Change messages for CC number n among msgs
ControlChangesOf(n, msgs) ==
    SelectSeq(msgs, LAMBDA m : Len(m) = 3 /\ m[1] \div 16 = 11 /\ m[2] = n)

\* the step that runs the encoder branch with a non-zero delta and a held key
Rotating ==
    /\ pc = "rotate"
    /\ pc' = "store"
    /\ encoder_delta # 0
    /\ pressed_keys # <<>>

\* C13: in an iteration with a non-zero encoder delta d and a held playable
\* key, the stored value of every held key k becomes clamp(old_k + d, 0, 127),
\* and a Control-Change for CC number k+1 on channel 1 with the new value is
\* written exactly when the new value differs from old_k: a key at 127 (at 0)
\* turned further up (down) keeps its value and no message is written for it.
C13_HeldKeysFollowDelta ==
    [][Rotating =>
          \A k \in Range(pressed_keys) :
              LET old == key_cc_values[k]
                  new == key_cc_values'[k]
              IN /\ new = Clamp(old + encoder_delta, 0, 127)
                 /\ ControlChangesOf(k + 1, written') =
                        IF new # old THEN << <<176, k + 1, new>> >> ELSE <<>>
                 /\ (old = 127 /\ encoder_delta > 0) =>
                        new = 127 /\ ControlChangesOf(k + 1, written') = <<>>
                 /\ (old = 0 /\ encoder_delta < 0) =>
                        new = 0 /\ ControlChangesOf(k + 1, written') = <<>>]_vars

\* keys 0 and 1 were held while the knob went one detent up: key 0 stayed at
\* 127 without a message, key 1 went to 65 with one
C13_Witness ==
    /\ pc = "store"
    /\ pressed_keys = <<0, 1>>
    /\ encoder_delta = 1
    /\ key_cc_values[0] = 127
    /\ key_cc_values[1] = 65
    /\ written = << <<176, 2, 65>> >>

\* what the decoder returned in the running iteration
DecodedDelta == effects[2].val

\* C14: with acceleration disabled, a detent the decoder registers while
\* playable key k is held moves the stored value of k by one in the direction
\* of the detent, clamped to 0..127 (so n detents take it from v to
\* clamp(v + n, 0, 127) or clamp(v - n, 0, 127)), and when the value moved the
\* last Control-Change written for CC number k+1 on channel 1 carries it.
C14_DetentMovesHeldKey ==
    [][(pc = "rotate" /\ pc' = "store" /\ ~acceleration_enabled
        /\ DecodedDelta # 0) =>
          \A k \in Range(pressed_keys) :
              LET old == key_cc_values[k]
                  new == key_cc_values'[k]
                  sent == ControlChangesOf(k + 1, written')
              IN /\ new = Clamp(old + DecodedDelta, 0, 127)
                 /\ new # old => (sent # <<>> /\ sent[Len(sent)] = <<176, k + 1, new>>)]_vars

\* the calls the encoder branch made in the running iteration
RotateCalls(log) == SelectSeq(log, LAMBDA e : e.by = "rotate")

Calls(kind, log) == SelectSeq(log, LAMBDA e : e.kind = kind)

\* the step that runs the encoder branch with several keys held
RotatingSeveral == Rotating /\ Len(pressed_keys) >= 2

\* every held key is adjusted, one Control-Change is written per key whose
\* value changed, and one LED flush ends the branch
SeveralAdjusted ==
    LET calls == RotateCalls(effects')
    IN /\ \A k \in Range(pressed_keys) :
             /\ key_cc_values'[k] = Clamp(key_cc_values[k] + encoder_delta, 0, 127)
             /\ Len(ControlChangesOf(k + 1, written')) =
                    IF key_cc_values'[k] # key_cc_values[k] THEN 1 ELSE 0
       /\ Len(written') =
             Cardinality({k \in Range(pressed_keys) :
                             key_cc_values'[k] # key_cc_values[k]})
       /\ Len(Calls("leds.show", calls)) = 1
       /\ calls[Len(calls)].kind = "leds.show"

\* C15 as stated: in an iteration with several playable keys held and a
\* non-zero encoder delta every held key is adjusted, one Control-Change is
\* written per key whose value changed, the branch refreshes the full-status
\* display exactly once, for the first held key in ascending order, and
\* flushes the LEDs exactly once, after all held keys.
C15_OneRefreshPerRotation ==
    [][RotatingSeveral =>
          LET shows == Calls("display.show_full_status", RotateCalls(effects'))
          IN /\ SeveralAdjusted
             /\ Len(shows) = 1
             /\ shows[1].key = pressed_keys[1]]_vars

\* C15 as amended: ... the branch refreshes the full-status display at most
\* once: once, for the first held key in ascending order and with its new
\* value, when the value of that key changed, and not at all when it did not
\* (the first held key already at 127 or 0); it flushes the LEDs exactly once,
\* after all held keys.
C15_RefreshWhenFirstKeyChanged ==
    [][RotatingSeveral =>
          LET shows == Calls("display.show_full_status", RotateCalls(effects'))
              first == pressed_keys[1]
          IN /\ SeveralAdjusted
             /\ first = CHOOSE k \in Range(pressed_keys) :
                            \A j \in Range(pressed_keys) : k <= j
             /\ IF key_cc_values'[first] # key_cc_values[first]
                THEN /\ Len(shows) = 1
                     /\ shows[1].key = first
                     /\ shows[1].val = key_cc_values'[first]
                     /\ screen' = FullStatus(first, key_cc_values'[first],
                                             first + 1, 1)
                ELSE /\ shows = <<>>
                     /\ screen' = screen]_vars

\* keys 0 and 1 were held while the knob went one detent up with key 0 at
\* 127: one Control-Change, for key 1, its LED set, one flush, no refresh
C15_Witness ==
    /\ pc = "store"
    /\ pressed_keys = <<0, 1>>
    /\ encoder_delta = 1
    /\ key_cc_values[0] = 127
    /\ RotateCalls(effects) =
          <<Eff("rotate", "midi.write", 0 - 1, 0 - 1, <<176, 2, 65>>),
            Eff("rotate", "leds.set_key_value", 1, 65, <<>>),
            Did("rotate", "leds.show")>>

----------------------------------------------------------------------------
(* Claims on the idle view (FairTurned, Spec) *)

\* the iteration that is ending released the last held playable key
LastKeyReleased ==
    /\ pc = "store"
    /\ pressed_keys = <<>>
    /\ prev_pressed_keys # <<>>

\* C16: when the last held playable key is released and no key is pressed
\* afterwards, exactly one Note-Off for the note of that key is written, the
\* idle layer view is drawn at most once for the release, and the display
\* eventually shows the idle layer view, in every execution of the loop.
C16_IdleViewAfterLastRelease ==
    /\ [](LastKeyReleased =>
             /\ \A k \in Range(prev_pressed_keys) :
                    Times(NoteOffOfKey(k), iter_log) = 1
             /\ Len(Calls("display.show_layer", effects)) <= 1)
    /\ [](LastKeyReleased => <>(screen = LayerView \/ pressed_keys # <<>>))

\* the step that draws the idle layer view
DrawsIdleView ==
    /\ pc \in LoopPositions
    /\ effects' = effects \o <<Did("idle", "display.show_layer")>>

\* C17: the idle layer view is drawn only in an iteration whose pressed set
\* is empty while the previous pressed set was not, and only when at least
\* 100 ms have passed since the display was last redrawn.
C17_IdleViewThrottled ==
    [][DrawsIdleView =>
          /\ pressed_keys = <<>>
          /\ prev_pressed_keys # <<>>
          /\ redraw_age >= DISPLAY_UPDATE_INTERVAL]_vars

----------------------------------------------------------------------------
(* Claims on the order of an iteration (Spec) *)

\* the order of the blocks of an iteration
Rank(by) ==
    CASE by = "read" -> 0
      [] by = "press" -> 1
      [] by = "release" -> 2
      [] by = "idle" -> 3
      [] by = "rotate" -> 4

\* the calls that read the hardware
IsRead(e) == e.kind \in {"matrix.scan", "encoder.update"}

\* what each block may call
BlockOf(e) ==
    CASE e.kind \in {"matrix.scan", "encoder.update"} -> {"read"}
      [] e.kind = "midi.write" /\ IsNoteOn(e.msg) -> {"press"}
      [] e.kind = "midi.write" /\ IsNoteOff(e.msg) -> {"release"}
      [] e.kind = "midi.write" -> {"rotate"}
      [] e.kind = "leds.set_key_color" -> {"press"}
      [] e.kind = "display.show_layer" -> {"idle"}
      [] OTHER -> {"press", "rotate"}

\* the keys the press block handled, in the order it handled them
PressedInOrder(log) ==
    LET shown == SelectSeq(log, LAMBDA e : e.by = "press"
                                          /\ e.kind = "display.show_full_status")
    IN [i \in 1..Len(shown) |-> shown[i].key]

\* C18: in every iteration the matrix scan and the one encoder decode come
\* before every MIDI, LED and display call and no read follows a call; the
\* calls come block by block: press handling in ascending key order, then
\* release handling, then the idle view, then the encoder adjustments; and
\* prev_pressed_keys is assigned only after all of them.
C18_ReadsThenEffectsInOrder ==
    /\ [](effects # <<>> =>
             /\ Len(effects) >= 2
             /\ effects[1].kind = "matrix.scan"
             /\ effects[2].kind = "encoder.update"
             /\ \A i \in 3..Len(effects) : ~IsRead(effects[i])
             /\ \A i \in 1..Len(effects) : effects[i].by \in BlockOf(effects[i])
             /\ \A i, j \in 1..Len(effects) :
                    i < j => Rank(effects[i].by) <= Rank(effects[j].by)
             /\ \A i, j \in 1..Len(PressedInOrder(effects)) :
                    i < j => PressedInOrder(effects)[i] < PressedInOrder(effects)[j])
    /\ [][prev_pressed_keys' # prev_pressed_keys =>
             /\ pc = "store"
             /\ effects' = effects
             /\ newly_pressed = <<>>
             /\ newly_released = <<>>]_vars
    /\ [][(pc \in LoopPositions /\ pc' \in LoopPositions /\ pc # "scan") =>
             /\ UNCHANGED <<key_states, position, value, encoder_delta,
                            pressed_keys>>
             /\ Len(effects') >= Len(effects)]_vars

\* an iteration that handled the press of key 1 and then the release of key 0
C18_Witness ==
    /\ pc = "store"
    /\ PressedInOrder(effects) = <<1>>
    /\ effects[3] = Eff("press", "midi.write", 0 - 1, 0 - 1, <<144, 61, 100>>)
    /\ effects[Len(effects)] =
          Eff("release", "midi.write", 0 - 1, 0 - 1, <<128, 60, 0>>)

----------------------------------------------------------------------------
(* Claims on the shutdown (Spec, FairSpec) *)

Reverse(list) == [i \in 1..Len(list) |-> list[Len(list) + 1 - i]]

\* the collaborators in the order the handler has deinitialised them
Deinitialised(log) ==
    LET calls == SelectSeq(log, LAMBDA e :
                     e.kind \in {c \o ".deinit" : c \in Range(Acquired)})
    IN [i \in 1..Len(calls) |->
           CHOOSE c \in Range(Acquired) : calls[i].kind = c \o ".deinit"]

\* C19: on termination the collaborators are deinitialised in the reverse of
\* the order in which they were acquired (display, scanner, encoder, LEDs,
\* MIDI).
C19_DeinitInReverseOrder ==
    pc = "done" => Deinitialised(shutdown_log) = Reverse(Acquired)

\* the Note-Off messages come before the animation and the cleanup
NotesOffFirst(log) ==
    \A i, j \in 1..Len(log) :
        (/\ log[i].kind = "midi.write" /\ IsNoteOff(log[i].msg)
         /\ log[j].by \in {"animation", "cleanup"}) => i < j

\* C20: once the interrupt has arrived the handler writes a Note-Off for every
\* note in active_notes and empties the set, before the LED animation and
\* before any collaborator is deinitialised, and it runs to its end.
C20_ShutdownStopsNotesFirst ==
    /\ [][(pc = "interrupted" /\ pc' # "interrupted") =>
             /\ shutdown_log = <<>>
             /\ \A n \in active_notes : Times(<<128, n, 0>>, written') = 1
             /\ Len(written') = Cardinality(active_notes)
             /\ MidiEffects("shutdown", written') = Calls("midi.write", shutdown_log')
             /\ active_notes' = {}]_vars
    /\ [](NotesOffFirst(shutdown_log))
    /\ [](pc \in {"animation", "cleanup", "done"} => active_notes = {})
    /\ [](pc = "done" =>
             /\ Len(Calls("leds.set_brightness", shutdown_log)) = 2 * ANIMATION_BLINKS
             /\ Range(Deinitialised(shutdown_log)) = Range(Acquired))
    /\ [](pc = "interrupted" => <>(pc = "done"))

\* the interrupt arrived while keys 0 and 1 were held: both notes were
\* stopped first and the handler has ended
C20_Witness ==
    /\ pc = "done"
    /\ active_notes = {}
    /\ Len(shutdown_log) > 3
    /\ {shutdown_log[2].msg, shutdown_log[3].msg} = {<<128, 60, 0>>, <<128, 61, 0>>}
    /\ shutdown_log[4].kind = "leds.set_brightness"

----------------------------------------------------------------------------
(* Claims on the All-Notes-Off sweep (Spec) *)

\* the messages the handler has written, in order
ShutdownWritten ==
    LET writes == Calls("midi.write", shutdown_log)
    IN [i \in 1..Len(writes) |-> writes[i].msg]

\* Control-Change 123 with value 0 on channel ch: status 0xB0 + (ch - 1)
AllNotesOffOn(ch) == <<176 + (ch - 1), 123, 0>>

\* C21: during shutdown Control-Change 123 with value 0 is written exactly
\* once on each of the channels 1..16, whatever active_notes held when the
\* interrupt arrived, and no other Control-Change is written.
C21_AllNotesOffOncePerChannel ==
    /\ pc = "done" =>
          /\ \A ch \in 1..16 : Times(AllNotesOffOn(ch), ShutdownWritten) = 1
          /\ \A i \in 1..Len(ShutdownWritten) :
                \/ IsNoteOff(ShutdownWritten[i])
                \/ \E ch \in 1..16 : ShutdownWritten[i] = AllNotesOffOn(ch)
    /\ pc \in {"interrupted", "animation", "cleanup"} =>
          \A ch \in 1..16 : Times(AllNotesOffOn(ch), ShutdownWritten) = 0

\* the handler has ended after an interrupt that arrived while key 1 alone
\* was held: one Note-Off, then the sweep
C21_Witness ==
    /\ pc = "done"
    /\ Len(ShutdownWritten) = 17
    /\ ShutdownWritten[1] = <<128, 61, 0>>
    /\ ShutdownWritten[17] = <<191, 123, 0>>

----------------------------------------------------------------------------
(* Claims on the start-up (SpecStart) *)

IsPrefix(a, b) == Len(a) <= Len(b) /\ a = SubSeq(b, 1, Len(a))

\* C22: the collaborators are constructed in the order display, scanner,
\* encoder, LEDs, MIDI; the loop runs only when all five constructors have
\* returned; when one of them fails no iteration is ever executed and no MIDI
\* message is written.
C22_LoopOnlyAfterStartup ==
    /\ [](IsPrefix(startup_log, <<"display", "matrix", "encoder", "leds", "midi">>))
    /\ [](pc \in {"scan", "events", "rotate", "store"} =>
             startup_log = <<"display", "matrix", "encoder", "leds", "midi">>)
    /\ [](pc \notin {"scan", "events", "rotate", "store"} =>
             /\ written = <<>>
             /\ sounding = {}
             /\ active_notes = {}
             /\ effects = <<>>
             /\ key_events = 0 /\ detents = 0)
    /\ [](pc = "failed" => Len(startup_log) < 5)
    /\ [][pc # "failed"]_vars

\* the LED strip could not be set up: the program has ended with three
\* collaborators constructed
C22_Witness ==
    /\ pc = "failed"
    /\ startup_log = <<"display", "matrix", "encoder">>

----------------------------------------------------------------------------
(* Claims on the reserved switches (SpecReserved) *)

ReservedKeys == {16, 17}

\* what the loop drives: the stored values, the notes, the LEDs, the display
Driven == <<key_cc_values, active_notes, pixels, strip, screen>>

\* C23: switches 16 and 17 take no part in the dispatch: they are never in
\* the pressed sets; a scan in which only they change state starts no press
\* and no release; and as long as no playable key is held, whatever 16, 17
\* and the knob do, nothing is written to MIDI and no stored value, LED or
\* display state changes.
C23_ReservedSwitchesIgnored ==
    /\ [](\A k \in ReservedKeys :
             k \notin Range(pressed_keys) \cup Range(prev_pressed_keys)
                      \cup Range(newly_pressed) \cup Range(newly_released))
    /\ [][(/\ \E k \in ReservedKeys : key_states'[k] # key_states[k]
           /\ \A k \in 0..15 : key_states'[k] = key_states[k])
          => /\ newly_pressed' = <<>>
             /\ newly_released' = <<>>
             /\ written' = <<>>
             /\ UNCHANGED Driven]_vars
    /\ [][(pressed_keys' = <<>> /\ prev_pressed_keys' = <<>>)
          => /\ written' = <<>>
             /\ UNCHANGED Driven]_vars

\* the knob was turned while switches 16 and 17, and no playable key, were
\* held, and the encoder branch has been passed
C23_Witness ==
    /\ pc = "store"
    /\ key_states[16] /\ key_states[17]
    /\ pressed_keys = <<>>
    /\ encoder_delta # 0
    /\ key_cc_values = [k \in 0..15 |-> 64]
    /\ effects = ReadEffects(encoder_delta)

----------------------------------------------------------------------------
(* Claims on the arrival of the interrupt (Spec) *)

NotesOf(keys) == {60 + k : k \in Range(keys)}

\* C24: the interrupt is observed between iterations only: when the handler
\* starts, the effects of the last iteration are all applied, so the notes in
\* active_notes are those of the keys stored in prev_pressed_keys and no
\* press or release is left unhandled.
C24_InterruptBetweenIterations ==
    pc = "interrupted" =>
        /\ active_notes = NotesOf(prev_pressed_keys)
        /\ newly_pressed = <<>>
        /\ newly_released = <<>>

----------------------------------------------------------------------------
(* Claims on the handling of a press (SpecTurned) *)

\* the calls a step added to those of the running iteration
Added == SubSeq(effects', Len(effects) + 1, Len(effects'))

\* the step that handles the first key of newly_pressed
HandlesPress ==
    /\ pc = "events" /\ pc' = "events"
    /\ newly_pressed # <<>>
    /\ newly_pressed' = Tail(newly_pressed)

\* C25: for a newly pressed key k the calls are, in this order: Note-On
\* (note 60 + k, velocity 100, channel 1); the LED of k set to white, flush;
\* the LED of k set from the stored value of k, flush; one full-status
\* refresh with the stored value of k, CC number k + 1 and channel 1. After
\* them the LED of k has the colour of the stored value and no other LED has
\* changed.
C25_PressEffectsInOrder ==
    [][HandlesPress =>
          LET k == Head(newly_pressed)
              stored == key_cc_values[k]
          IN /\ Len(Added) = 6
             /\ Added[1].kind = "midi.write" /\ Added[1].msg = <<144, 60 + k, 100>>
             /\ Added[2].kind = "leds.set_key_color"
             /\ Added[2].key = k /\ Added[2].val = 255
             /\ Added[3].kind = "leds.show"
             /\ Added[4].kind = "leds.set_key_value"
             /\ Added[4].key = k /\ Added[4].val = stored
             /\ Added[5].kind = "leds.show"
             /\ Added[6].kind = "display.show_full_status"
             /\ Added[6].key = k /\ Added[6].val = stored
             /\ screen' = [view |-> "full", key |-> k, val |-> stored,
                           cc |-> k + 1, ch |-> 1]
             /\ strip' = [strip EXCEPT ![KEY_TO_LED[k]] =
                              _hsv_to_rgb(HueSixths(stored), Level(stored))]
             /\ strip'[KEY_TO_LED[k]] # <<255, 255, 255>>
             /\ key_cc_values' = key_cc_values]_vars

\* key 0, whose stored value is 127, has just been pressed: its LED (LED 3)
\* is red again and the display shows Cutoff 127, CC#1, channel 1
C25_Witness ==
    /\ pc = "events"
    /\ Len(effects) = 8
    /\ effects[3].msg = <<144, 60, 100>>
    /\ effects[6].val = 127
    /\ strip[3] = <<255, 0, 0>>
    /\ screen = [view |-> "full", key |-> 0, val |-> 127, cc |-> 1, ch |-> 1]

----------------------------------------------------------------------------
(* Claims on the stored values (SpecTurned) *)

\* C26: every stored CC value is in 0..127 in every reachable state; the
\* stored value of a key changes only in an iteration in which that key is in
\* pressed_keys and the encoder delta is not zero, so the values of the keys
\* that are not held are left alone by every iteration.
C26_StoredValuesBoundedAndOwned ==
    /\ [](\A k \in 0..15 : 0 <= key_cc_values[k] /\ key_cc_values[k] <= 127)
    /\ [][\A k \in 0..15 :
             key_cc_values'[k] # key_cc_values[k] =>
                 /\ k \in Range(pressed_keys)
                 /\ encoder_delta # 0
                 /\ key_states[k]]_vars

\* the knob was turned up by one detent while key 1 alone was held: its
\* value is 65, the value of key 0, not held, is still 127
C26_Witness ==
    /\ pc = "store"
    /\ pressed_keys = <<1>>
    /\ encoder_delta = 1
    /\ key_cc_values[1] = 65
    /\ key_cc_values[0] = 127

----------------------------------------------------------------------------
(* Claims on the active notes at the end of an iteration (Spec) *)

\* C27: when an iteration has ended, active_notes is exactly the set of the
\* notes 60 + k of the keys k stored in prev_pressed_keys: the note of every
\* held playable key is active and no note of a key that is not held is.
C27_ActiveNotesFollowHeldKeys ==
    pc = "scan" =>
        /\ active_notes = {60 + k : k \in Range(prev_pressed_keys)}
        /\ \A k \in 0..15 : key_states[k] <=> (60 + k) \in active_notes
        /\ \A n \in active_notes : n - 60 \in 0..15

\* keys 0 and 1 were pressed together and key 0 released: at the end of the
\* iteration that handled the release only note 61 is active
C27_Witness ==
    /\ pc = "scan"
    /\ key_events = 3
    /\ prev_pressed_keys = <<1>>
    /\ active_notes = {61}
    /\ iter_log = <<<<128, 60, 0>>>>

----------------------------------------------------------------------------
(* Claims on the LEDs (SpecStart) *)

\* the colour LEDController.set_key_value gives to a value
ColourOfValue(val) == _hsv_to_rgb(HueSixths(val), Level(val))

\* C28: when the loop is first entered and whenever an iteration has ended,
\* the LED of every playable key k shows the colour of the stored value of k
\* (the white flash of a press is undone, every change of a value has reached
\* the LED of its key and has been flushed), and KEY_TO_LED maps the keys
\* 0..15 one-to-one onto the LEDs 0..15.
C28_LedsShowStoredValues ==
    /\ {KEY_TO_LED[k] : k \in 0..15} = 0..15
    /\ \A j, k \in 0..15 : KEY_TO_LED[j] = KEY_TO_LED[k] => j = k
    /\ pc = "scan" =>
          \A k \in 0..15 :
              /\ strip[KEY_TO_LED[k]] = ColourOfValue(key_cc_values[k])
              /\ pixels[KEY_TO_LED[k]] = ColourOfValue(key_cc_values[k])
              /\ strip[KEY_TO_LED[k]] # <<255, 255, 255>>

\* key 0 was pressed (and flashed) and its value turned up to 65: at the end
\* of the iteration LED 3 shows the colour of 65 and LED 2 that of 64
C28_Witness ==
    /\ pc = "scan"
    /\ prev_pressed_keys = <<0>>
    /\ key_cc_values[0] = 65
    /\ strip[3] = <<7, 167, 0>>
    /\ strip[2] = <<2, 166, 0>>
    /\ strip[0] = <<2, 166, 0>>

----------------------------------------------------------------------------
(* Claims on the channel of the Note-Off (SpecChan) *)

\* C29: whatever channel arguments play, stop and stop_all are called with,
\* the Note-Off of a note that leaves active_notes is written on the channel
\* on which the Note-On that activated the note was written.
C29_NoteOffOnChannelOfNoteOn ==
    [][\A p \in on_channel :
          p[1] \notin active_notes' =>
              \A i \in 1..Len(written') :
                  (IsNoteOff(written'[i]) /\ written'[i][2] = Clamp(p[1], 0, 127))
                      => ChannelSent(written'[i]) = p[2]]_vars

----------------------------------------------------------------------------
(* Claims on the range of EncoderWithValue (SpecRange) *)

\* C30: from the construction of an EncoderWithValue on, with any
\* initial_value, min_value and max_value, and after any sequence of update,
\* set_value and set_range calls, min_value <= value <= max_value.
C30_ValueAlwaysInRange ==
    min_value <= value /\ value <= max_value

----------------------------------------------------------------------------
(* C31 *)

\* what a receiver on channel ch is left playing after msgs, when it played
\* snd before: Note-On starts a note, Note-Off ends it, CC#123 ends all
RECURSIVE LeftSounding(_, _, _)
LeftSounding(snd, msgs, ch) ==
    IF msgs = <<>> THEN snd
    ELSE LET m == Head(msgs)
         IN LeftSounding(IF m[1] = BitOr(NOTE_ON, ch - 1) THEN snd \cup {m[2]}
                         ELSE IF m[1] = BitOr(NOTE_OFF, ch - 1) THEN snd \ {m[2]}
                         ELSE IF m = <<BitOr(CONTROL_CHANGE, ch - 1), 123, 0>> THEN {}
                         ELSE snd,
                         Tail(msgs), ch)

\* C31: wherever in the iteration KeyboardInterrupt lands, also between the
\* write of a Note-On and active_notes.add(), once the handler has run to its
\* end every note whose Note-On has no later Note-Off has been followed on
\* channel 1 by CC#123: the cleanup's messages leave nothing sounding
C31_NoNoteLeftSounding ==
    [][pc' = "done" => LeftSounding(sounding, written', 1) = {}]_vars

\* the handler has run to its end after an interrupt that landed between the
\* Note-On and active_notes.add(): stop_all() did not stop that note
C31_Witness ==
    /\ pc = "done"
    /\ sounding # {}
    /\ \E k \in 0..15 :
          /\ newly_pressed # <<>>
          /\ Head(newly_pressed) = k
          /\ KEY_TO_NOTE[k] \in sounding
          /\ effects[Len(effects)] = Eff("press", "midi.write", 0 - 1, 0 - 1,
                                         note_on(KEY_TO_NOTE[k], NOTE_VELOCITY,
                                                 {midi_channel}))

----------------------------------------------------------------------------
(* C32 *)

\* the raw level of switch k as scan() reads it: closed is pressed
RawPressed(k) == ~col_value[k]

\* C32: while the loop keeps calling scan(), a switch whose debounced state
\* differs from its raw level catches up with it unless the level changes
\* back first (a change read inside the lock-out is committed by a later
\* scan), and a released key whose note is sounding gets its Note-Off unless
\* it is pressed again
C32_NoStuckKeys ==
    /\ \A k \in Pressable :
          (pc \in LoopPositions /\ key_states[k] # RawPressed(k))
             ~> (key_states[k] = RawPressed(k) \/ pc \notin LoopPositions)
    /\ \A k \in Pressable \cap (0..15) :
          (~RawPressed(k) /\ KEY_TO_NOTE[k] \in sounding)
             ~> (RawPressed(k) \/ KEY_TO_NOTE[k] \notin sounding)

\* scan() has just read a press of a key inside the lock-out that followed
\* the release of that key, and has not committed it
C32_Witness ==
    \E k \in Pressable \cap (0..15) :
       /\ pc = "events"
       /\ RawPressed(k)
       /\ ~key_states[k]
       /\ time_since_change[k] \in 1..DEBOUNCE_TIME
       /\ k \notin Range(prev_pressed_keys)
       /\ KEY_TO_NOTE[k] \notin sounding

====
